---- MODULE Spec2Model ----
(***************************************************************************)
(* Model of mcplease's SessionStore<T> (src/src/session.rs): a keyed map   *)
(* persisted to one JSON file by temp-file + rename, watched for external  *)
(* changes by a notify callback that shares two atomics with the caller.   *)
(*                                                                         *)
(* Each store instance is one process.  A public operation is a sequence   *)
(* of steps, one per access to state shared with another thread or         *)
(* process (the two atomics, the target file, the temp file); the purely   *)
(* local code between two such accesses belongs to the later step.         *)
(*                                                                         *)
(* The mcplease command line (src/cli/src/main.rs) is modelled beside it:  *)
(* create and add on one project directory, one step per command.          *)
(*                                                                         *)
(* The server loop (src/src/lib.rs, types.rs, macros.rs) is modelled as    *)
(* one process reading lines from its standard input: a step per read,     *)
(* per executed request and per written response.                          *)
(***************************************************************************)
EXTENDS Integers, Sequences, FiniteSets, TLC

\* ------------------------------------------------------------------ bounds
MaxClock == 1          \* SystemTime::now() ranges over 0..MaxClock
MaxData == 1           \* the payload type T ranges over 0..MaxData
MaxPending == 2        \* notifications queued for one watcher
MaxErrors == 1         \* error results one watcher's callback receives
MaxOthers == 1         \* events of other kinds one watcher's callback receives
MaxTools == 2          \* entries of the tools! macro
MaxLines == 3          \* lines the client writes to the server's standard input
MaxCount == 1          \* the server's State is a counter in 0..MaxCount

\* --------------------------------------------------------------- constants
IgnoreCount == 2       \* events one atomic write is expected to produce

Stores == {"A", "B"}
IdOrder == <<"a", "b">>
Ids == {IdOrder[i] : i \in 1..Len(IdOrder)}
Data == 0..MaxData
Times == 0..MaxClock
DefaultData == 0       \* T::default()

NoFile == <<[k |-> "nofile", id |-> "", data |-> 0, created_at |-> 0, last_used |-> 0]>>

\* ------------------------------------------------------------ entry model
SessionMetadata(c, l) == [created_at |-> c, last_used |-> l]

SessionEntry(d, c, l) == [data |-> d, metadata |-> SessionMetadata(c, l)]

\* SessionEntry::default() at clock reading t
DefaultEntry(t) == SessionEntry(DefaultData, t, t)

\* faulty variant: touching an entry also resets its creation time
update_both(e, t) == [e EXCEPT !.metadata.last_used = t, !.metadata.created_at = t]

\* SessionEntry::update_last_used at clock reading t
update_last_used(e, t) == [e EXCEPT !.metadata.last_used = t]

EmptyMap == [i \in {} |-> DefaultEntry(0)]

\* faulty variant: inserting forgets the other entries
InsertAlone(m, id, e) == [i \in {id} |-> e]

Insert(m, id, e) == [i \in (DOMAIN m) \cup {id} |-> IF i = id THEN e ELSE m[i]]

\* --------------------------------------------------- persisted file format
\* A file's content is a sequence of tokens.  The JSON object written by
\* serde_json::to_string_pretty is "{", one token per entry, "}".
Tok(k, id, d, c, l) == [k |-> k, id |-> id, data |-> d, created_at |-> c, last_used |-> l]

LBrace == Tok("{", "", 0, 0, 0)
RBrace == Tok("}", "", 0, 0, 0)
Space == Tok("ws", "", 0, 0, 0)
Junk == Tok("junk", "", 0, 0, 0)

\* faulty variant: the entry is written without its timestamps
EntryTokNoTimes(id, e) == Tok("entry", id, e.data, 0, 0)

\* faulty variant: the entry is written without its data
EntryTokNoData(id, e) == Tok("entry", id, DefaultData, e.metadata.created_at, e.metadata.last_used)

EntryTok(id, e) == Tok("entry", id, e.data, e.metadata.created_at, e.metadata.last_used)

RECURSIVE EntryToks(_, _)
EntryToks(m, i) ==
    IF i > Len(IdOrder) THEN <<>>
    ELSE (IF IdOrder[i] \in DOMAIN m THEN <<EntryTok(IdOrder[i], m[IdOrder[i]])>> ELSE <<>>)
         \o EntryToks(m, i + 1)

\* faulty variant: only the first entry of the map is written
SerializeFirst(m) == <<LBrace>> \o SubSeq(EntryToks(m, 1), 1, 1) \o <<RBrace>>

\* serde_json::to_string_pretty(&self.sessions)
Serialize(m) == <<LBrace>> \o EntryToks(m, 1) \o <<RBrace>>

IsSpace(t) == t.k = "ws"

\* str::trim
RECURSIVE TrimStart(_)
TrimStart(c) == IF Len(c) > 0 /\ IsSpace(Head(c)) THEN TrimStart(Tail(c)) ELSE c

RECURSIVE TrimEnd(_)
TrimEnd(c) == IF Len(c) > 0 /\ IsSpace(c[Len(c)]) THEN TrimEnd(SubSeq(c, 1, Len(c) - 1)) ELSE c

Trim(c) == TrimEnd(TrimStart(c))

\* serde_json::from_str::<HashMap<String, SessionEntry<T>>>: whitespace
\* between tokens is skipped, a repeated key keeps its last value.
RECURSIVE CollectEntries(_, _)
CollectEntries(c, m) ==
    IF Len(c) = 0 THEN m
    ELSE CollectEntries(Tail(c),
            Insert(m, Head(c).id, SessionEntry(Head(c).data, Head(c).created_at, Head(c).last_used)))

ParseOk(c) ==
    LET j == SelectSeq(c, LAMBDA t : ~IsSpace(t))
    IN  /\ Len(j) >= 2
        /\ j[1] = LBrace
        /\ j[Len(j)] = RBrace
        /\ \A i \in 2..(Len(j) - 1) : j[i].k = "entry"

Parse(c) ==
    LET j == SelectSeq(c, LAMBDA t : ~IsSpace(t))
    IN  CollectEntries(SubSeq(j, 2, Len(j) - 1), EmptyMap)

\* faulty variant: content that is only whitespace clears the map
LoadFromBlank(m, c) ==
    IF c = NoFile THEN m
    ELSE IF Len(Trim(c)) = 0 THEN EmptyMap
    ELSE IF ParseOk(c) THEN Parse(c)
    ELSE m

\* faulty variant: content that is empty or does not parse clears the map
LoadFromClear(m, c) ==
    IF c = NoFile THEN m
    ELSE IF Len(Trim(c)) = 0 THEN EmptyMap
    ELSE IF ParseOk(c) THEN Parse(c)
    ELSE EmptyMap

\* SessionStore::load on a store with a path, given the content read
LoadFrom(m, c) ==
    IF c = NoFile THEN m
    ELSE IF Len(Trim(c)) = 0 THEN m
    ELSE IF ParseOk(c) THEN Parse(c)
    ELSE m

\* a write(2) of n at offset 0 of a file holding old
Overlay(old, n) == n \o SubSeq(old, Len(n) + 1, Len(old))

\* ---------------------------------------------------------------- mutators
Mut(kind, v) == [kind |-> kind, v |-> v]

Identity == Mut("identity", 0)

Replace(v) == Mut("replace", v)

Bump == Mut("bump", 0)

Mutators == {Identity, Bump} \cup {Replace(v) : v \in Data}

Apply(f, d) ==
    CASE f.kind = "identity" -> d
      [] f.kind = "replace" -> f.v
      [] f.kind = "bump" -> (d + 1) % (MaxData + 1)

\* -------------------------------------------------------------------- state
NoProject == [uses |-> "", state_type |-> "", tools |-> <<>>]

NoCommand == [cmd |-> "none", name |-> <<>>, result |-> "none"]

\* a JSON member that is not there
Absent == "absent"

\* the params member of a message: kind is "absent", "null", "array" or "object"
Params(kind, name, arguments) == [kind |-> kind, name |-> name, arguments |-> arguments]

NoParams == Params("absent", Absent, Absent)

McpRequest(jsonrpc, id, method, params) ==
    [jsonrpc |-> jsonrpc, id |-> id, method |-> method, params |-> params]

NoRequest == McpRequest(Absent, Absent, Absent, NoParams)

\* Option fields are sequences of length 0 or 1
McpResponse(id, result, error) ==
    [jsonrpc |-> "2.0", id |-> id, result |-> result, error |-> error]

NoResponse == [jsonrpc |-> Absent, id |-> Absent, result |-> <<>>, error |-> <<>>]

VARIABLES
    target,              \* content of the file at storage_path, or NoFile
    tmp,                 \* content of storage_path.with_extension("tmp"), or NoFile
    now,                 \* the last reading SystemTime::now() returned
    pc,                  \* where each store's caller thread is
    sessions,            \* SessionStore.sessions
    storage_path,        \* SessionStore.storage_path: "P" or "none"
    needs_reload,        \* SessionStore.needs_reload
    ignore_next_events,  \* SessionStore.ignore_next_events
    watcher,             \* SessionStore._watcher is Some
    pending,             \* create/modify events not yet delivered to the callback
    cb,                  \* the callback's local `current`, -1 outside the callback
    fd,                  \* where the file opened by fs::write now lives
    call,                \* the public operation in progress or last finished
    ret,                 \* what the last finished operation returned
    pre,                 \* sessions as check_and_reload left it for the operation
    saves,               \* renames onto the target completed by the operation
    dropped,             \* sessions of the store value that was last dropped
    dir,                 \* the parent directory of storage_path exists
    errors,              \* error results the callback of the live watcher has received
    others,              \* events of other kinds (access, remove, ..) it has received
    failed,              \* SaveFail has failed a save of the store and none has succeeded since
    project,             \* the project directory and the last mcplease command, a record
    srv                  \* the server process and its two streams, a record

vars == <<target, tmp, now, pc, sessions, storage_path, needs_reload,
          ignore_next_events, watcher, pending, cb, fd, call, ret, pre, saves, dropped,
          dir, errors, others, failed, project, srv>>

cliVars == <<project>>

\* the fields of project
tools_rs == project.tools_rs       \* content of the project's src/tools.rs, or NoProject
tool_files == project.tool_files   \* the files in the project's src/tools/
cli == project.cli                 \* the last mcplease command and its outcome

srvVars == <<srv>>

\* the fields of srv
stdin == srv.stdin          \* lines written to standard input and not yet read
ending == srv.ending        \* how the input ends once stdin is drained: "open", "eof", "err"
serve_pc == srv.pc          \* where serve is: "off", "read", "exec", "write", "ok", "err"
request == srv.request      \* the McpRequest being executed, or NoRequest
response == srv.response    \* the McpResponse to be written, or NoResponse
state == srv.state          \* the State value handed to serve
stdout == srv.stdout        \* lines written to standard output
taken == srv.taken          \* lines read_line has returned so far

storeVars == <<target, tmp, now, pc, sessions, storage_path, needs_reload,
               ignore_next_events, watcher, pending, cb, fd, call, ret, pre, saves, dropped,
               dir, errors, others, failed>>

Ret(ok, some, val) == [ok |-> ok, some |-> some, val |-> val]

Call(op, id, f) == [op |-> op, id |-> id, f |-> f]

NoCall == Call("none", "", Identity)

Init ==
    /\ target = NoFile
    /\ tmp = NoFile
    /\ now = 0
    /\ pc = [s \in Stores |-> "closed"]
    /\ sessions = [s \in Stores |-> EmptyMap]
    /\ storage_path = [s \in Stores |-> "none"]
    /\ needs_reload = [s \in Stores |-> FALSE]
    /\ ignore_next_events = [s \in Stores |-> 0]
    /\ watcher = [s \in Stores |-> FALSE]
    /\ pending = [s \in Stores |-> 0]
    /\ cb = [s \in Stores |-> -1]
    /\ fd = [s \in Stores |-> "none"]
    /\ call = [s \in Stores |-> NoCall]
    /\ ret = [s \in Stores |-> Ret(TRUE, FALSE, 0)]
    /\ pre = [s \in Stores |-> EmptyMap]
    /\ saves = [s \in Stores |-> 0]
    /\ dropped = [s \in Stores |-> EmptyMap]
    /\ dir = FALSE
    /\ errors = [s \in Stores |-> 0]
    /\ others = [s \in Stores |-> 0]
    /\ failed = [s \in Stores |-> FALSE]
    /\ project = [tools_rs |-> NoProject, tool_files |-> {}, cli |-> NoCommand]
    /\ srv = [stdin |-> <<>>, ending |-> "open", pc |-> "off", request |-> NoRequest,
              response |-> NoResponse, state |-> 0, stdout |-> <<>>, taken |-> <<>>]

\* k create/modify events reach every live watcher of the target
Notify(k) ==
    /\ \A w \in Stores : watcher[w] => pending[w] + k <= MaxPending
    /\ pending' = [w \in Stores |-> IF watcher[w] THEN pending[w] + k ELSE pending[w]]

\* ------------------------------------------------------------ construction
\* SessionStore::new: the struct literal and, with a path, create_dir_all of
\* the parent.  Without a path load() and the watcher setup do nothing and
\* new returns the store.
New(s, p) ==
    /\ pc[s] = "closed"
    /\ storage_path' = [storage_path EXCEPT ![s] = p]
    /\ dir' = IF p = "P" THEN TRUE ELSE dir
    /\ sessions' = [sessions EXCEPT ![s] = EmptyMap]
    /\ needs_reload' = [needs_reload EXCEPT ![s] = FALSE]
    /\ ignore_next_events' = [ignore_next_events EXCEPT ![s] = 0]
    /\ pc' = [pc EXCEPT ![s] = IF p = "P" THEN "create" ELSE "idle"]
    /\ call' = [call EXCEPT ![s] = NoCall]
    /\ ret' = [ret EXCEPT ![s] = Ret(TRUE, FALSE, 0)]
    /\ pre' = [pre EXCEPT ![s] = EmptyMap]
    /\ saves' = [saves EXCEPT ![s] = 0]
    /\ dropped' = [dropped EXCEPT ![s] = IF p = "P" THEN dropped[s] ELSE EmptyMap]
    /\ UNCHANGED <<target, tmp, now, watcher, pending, cb, fd, errors,
                   others, failed, cliVars, srvVars>>

\* faulty variant: the file is opened with truncation
CreateTruncates(s) ==
    /\ pc[s] = "create"
    /\ dir
    /\ target' = <<>>
    /\ pc' = [pc EXCEPT ![s] = "newload"]
    /\ UNCHANGED <<tmp, now, sessions, storage_path, needs_reload, ignore_next_events,
                   watcher, pending, cb, fd, call, ret, pre, saves, dropped, dir, errors,
                   others, failed, cliVars, srvVars>>

\* new: OpenOptions::new().append(true).create(true).open(storage_path)
Create(s) ==
    /\ pc[s] = "create"
    /\ dir
    /\ target' = IF target = NoFile THEN <<>> ELSE target
    /\ pc' = [pc EXCEPT ![s] = "newload"]
    /\ UNCHANGED <<tmp, now, sessions, storage_path, needs_reload, ignore_next_events,
                   watcher, pending, cb, fd, call, ret, pre, saves, dropped, dir, errors,
                   others, failed, cliVars, srvVars>>

\* new: store.load()
NewLoad(s) ==
    /\ pc[s] = "newload"
    /\ sessions' = [sessions EXCEPT ![s] = LoadFrom(sessions[s], target)]
    /\ pc' = [pc EXCEPT ![s] = "watch"]
    /\ UNCHANGED <<target, tmp, now, storage_path, needs_reload, ignore_next_events,
                   watcher, pending, cb, fd, call, ret, pre, saves, dropped, dir, errors,
                   others, failed, cliVars, srvVars>>

\* setup_file_watching: the watch is registered and new returns the store
Watch(s) ==
    /\ pc[s] = "watch"
    /\ watcher' = [watcher EXCEPT ![s] = TRUE]
    /\ pc' = [pc EXCEPT ![s] = "idle"]
    /\ dropped' = [dropped EXCEPT ![s] = EmptyMap]
    /\ UNCHANGED <<target, tmp, now, sessions, storage_path, needs_reload,
                   ignore_next_events, pending, cb, fd, call, ret, pre, saves, dir, errors,
                   others, failed, cliVars, srvVars>>

\* the store value goes away: its map, its atomics and its watcher with it
Gone(s) ==
    /\ pc' = [pc EXCEPT ![s] = "closed"]
    /\ sessions' = [sessions EXCEPT ![s] = EmptyMap]
    /\ storage_path' = [storage_path EXCEPT ![s] = "none"]
    /\ needs_reload' = [needs_reload EXCEPT ![s] = FALSE]
    /\ ignore_next_events' = [ignore_next_events EXCEPT ![s] = 0]
    /\ watcher' = [watcher EXCEPT ![s] = FALSE]
    /\ pending' = [pending EXCEPT ![s] = 0]
    /\ cb' = [cb EXCEPT ![s] = -1]
    /\ fd' = [fd EXCEPT ![s] = "none"]
    /\ errors' = [errors EXCEPT ![s] = 0]
    /\ others' = [others EXCEPT ![s] = 0]
    /\ failed' = [failed EXCEPT ![s] = FALSE]
    /\ UNCHANGED <<target, tmp, now, dir, cliVars, srvVars>>

\* the caller drops the store between two operations
Drop(s) ==
    /\ pc[s] = "idle"
    /\ dropped' = [dropped EXCEPT ![s] = sessions[s]]
    /\ UNCHANGED <<call, ret, pre, saves>>
    /\ Gone(s)

\* the process stops in the middle of new or of an operation
Crash(s) ==
    /\ pc[s] \notin {"idle", "closed"}
    /\ dropped' = [dropped EXCEPT ![s] = EmptyMap]
    /\ call' = [call EXCEPT ![s] = NoCall]
    /\ ret' = [ret EXCEPT ![s] = Ret(TRUE, FALSE, 0)]
    /\ pre' = [pre EXCEPT ![s] = EmptyMap]
    /\ saves' = [saves EXCEPT ![s] = 0]
    /\ Gone(s)

\* -------------------------------------------------------- public operations
Ops == {"get", "get_or_create", "update", "set"}

\* faulty variant: the operation does not look at needs_reload
AfterCheckSkip(flag) == "body"

\* check_and_reload: where the operation goes after reading needs_reload
AfterCheck(flag) == IF flag THEN "load" ELSE "body"

\* Entry to get / get_or_create / update / set: check_and_reload reads needs_reload
Begin(s, op, id, f) ==
    /\ pc[s] = "idle"
    /\ op \in {"get", "get_or_create"} => f = Identity
    /\ op = "set" <=> f.kind = "replace"
    /\ call' = [call EXCEPT ![s] = Call(op, id, f)]
    /\ saves' = [saves EXCEPT ![s] = 0]
    /\ pre' = [pre EXCEPT ![s] = sessions[s]]
    /\ pc' = [pc EXCEPT ![s] = AfterCheck(needs_reload[s])]
    /\ UNCHANGED <<target, tmp, now, sessions, storage_path, needs_reload,
                   ignore_next_events, watcher, pending, cb, fd, ret, dropped, dir, errors,
                   others, failed, cliVars, srvVars>>

\* check_and_reload: self.load()? reads the file and replaces the map
Load(s) ==
    /\ pc[s] = "load"
    /\ sessions' = [sessions EXCEPT ![s] =
                        IF storage_path[s] = "P" THEN LoadFrom(sessions[s], target) ELSE sessions[s]]
    /\ pre' = [pre EXCEPT ![s] = sessions'[s]]
    /\ pc' = [pc EXCEPT ![s] = "clear"]
    /\ UNCHANGED <<target, tmp, now, storage_path, needs_reload, ignore_next_events,
                   watcher, pending, cb, fd, call, ret, saves, dropped, dir, errors,
                   others, failed, cliVars, srvVars>>

\* faulty variant: check_and_reload leaves needs_reload set after the load
ClearKeeps(s) ==
    /\ pc[s] = "clear"
    /\ pc' = [pc EXCEPT ![s] = "body"]
    /\ UNCHANGED <<target, tmp, now, sessions, storage_path, needs_reload, ignore_next_events,
                   watcher, pending, cb, fd, call, ret, pre, saves, dropped, dir, errors,
                   others, failed, cliVars, srvVars>>

\* check_and_reload: needs_reload.store(false)
Clear(s) ==
    /\ pc[s] = "clear"
    /\ needs_reload' = [needs_reload EXCEPT ![s] = FALSE]
    /\ pc' = [pc EXCEPT ![s] = "body"]
    /\ UNCHANGED <<target, tmp, now, sessions, storage_path, ignore_next_events,
                   watcher, pending, cb, fd, call, ret, pre, saves, dropped, dir, errors,
                   others, failed, cliVars, srvVars>>

\* faulty variant: get hands out a default value for an id it does not have
OkRetDefault(c, m) ==
    CASE c.op = "get" -> IF c.id \in DOMAIN m THEN Ret(TRUE, TRUE, m[c.id].data)
                         ELSE Ret(TRUE, TRUE, DefaultData)
      [] c.op = "get_or_create" -> Ret(TRUE, TRUE, m[c.id].data)
      [] OTHER -> Ret(TRUE, FALSE, 0)

\* what the operation c returns with Ok when the map is m
OkRet(c, m) ==
    CASE c.op = "get" -> IF c.id \in DOMAIN m THEN Ret(TRUE, TRUE, m[c.id].data)
                         ELSE Ret(TRUE, FALSE, 0)
      [] c.op = "get_or_create" -> Ret(TRUE, TRUE, m[c.id].data)
      [] OTHER -> Ret(TRUE, FALSE, 0)

\* faulty variant: last_used is advanced also when the data did not change
UpdateEntryTouch(m, id, f, t1, t2) ==
    IF id \in DOMAIN m
    THEN update_last_used([m[id] EXCEPT !.data = Apply(f, m[id].data)], t1)
    ELSE update_last_used([DefaultEntry(t1) EXCEPT !.data = Apply(f, DefaultData)], t2)

\* the entry update leaves for id: Entry::Occupied and Entry::Vacant arms
UpdateEntry(m, id, f, t1, t2) ==
    IF id \in DOMAIN m
    THEN LET after == Apply(f, m[id].data)
         IN  IF m[id].data # after
             THEN update_last_used([m[id] EXCEPT !.data = after], t1)
             ELSE m[id]
    ELSE update_last_used([DefaultEntry(t1) EXCEPT !.data = Apply(f, DefaultData)], t2)

\* faulty variant: only a new entry counts as a change
UpdateChangedVacantOnly(m, id, f) == id \notin DOMAIN m

\* faulty variant: every update counts as a change
UpdateChangedAlways(m, id, f) == TRUE

\* update's `changed`
UpdateChanged(m, id, f) ==
    IF id \in DOMAIN m THEN m[id].data # Apply(f, m[id].data) ELSE TRUE

\* faulty variant: reading an existing entry counts as a change
CreateChangedAlways(m, id) == TRUE

\* get_or_create's `changed`
CreateChanged(m, id) == id \notin DOMAIN m

\* faulty variant: save writes whether or not the store has a path
PersistsAlways(s) == TRUE

\* save: `if let Some(storage_path) = &self.storage_path`
Persists(s) == storage_path[s] = "P"

\* faulty variant: save adds the expected events to the counter
ArmedAdds(current) == current + IgnoreCount

\* faulty variant: save leaves the counter as it is
ArmedKeeps(current) == current

\* save: ignore_next_events.store(2), whatever the counter was
Armed(current) == IgnoreCount

\* The map work of the operation, and for a change the start of save():
\* ignore_next_events.store(2).  t1, t2 are the readings of SystemTime::now().
Body(s, t1, t2) ==
    LET c == call[s]
        m == sessions[s]
        changed == CASE c.op = "get" -> FALSE
                     [] c.op = "get_or_create" -> CreateChanged(m, c.id)
                     [] OTHER -> UpdateChanged(m, c.id, c.f)
        reads == CASE c.op = "get" -> 0
                   [] c.op = "get_or_create" -> IF changed THEN 1 ELSE 0
                   [] OTHER -> IF c.id \in DOMAIN m THEN (IF changed THEN 1 ELSE 0) ELSE 2
        m2 == CASE c.op = "get" -> m
                [] c.op = "get_or_create" -> IF changed THEN Insert(m, c.id, DefaultEntry(t1)) ELSE m
                [] OTHER -> Insert(m, c.id, UpdateEntry(m, c.id, c.f, t1, t2))
    IN  /\ pc[s] = "body"
        /\ now <= t1 /\ t1 <= t2
        /\ reads = 0 => t1 = now
        /\ reads < 2 => t2 = t1
        /\ now' = t2
        /\ sessions' = [sessions EXCEPT ![s] = m2]
        /\ IF changed /\ Persists(s)
           THEN /\ ignore_next_events' = [ignore_next_events EXCEPT
                                              ![s] = Armed(ignore_next_events[s])]
                /\ pc' = [pc EXCEPT ![s] = "open"]
                /\ ret' = ret
           ELSE /\ ignore_next_events' = ignore_next_events
                /\ pc' = [pc EXCEPT ![s] = "ret"]
                /\ ret' = [ret EXCEPT ![s] = OkRet(c, m2)]
        /\ UNCHANGED <<target, tmp, storage_path, needs_reload, watcher, pending, cb,
                       fd, call, pre, saves, dropped, dir, errors,
                   others, failed, cliVars, srvVars>>

\* faulty variant: save writes the target file in place
OpenTmpInPlace(s) ==
    /\ pc[s] = "open"
    /\ target' = <<>>
    /\ fd' = [fd EXCEPT ![s] = "target"]
    /\ pc' = [pc EXCEPT ![s] = "write"]
    /\ UNCHANGED <<tmp, now, sessions, storage_path, needs_reload, ignore_next_events,
                   watcher, pending, cb, call, ret, pre, saves, dropped, dir, errors,
                   others, failed, cliVars, srvVars>>

\* save: std::fs::write(&temp_path, ..) creates or truncates the temp file
OpenTmp(s) ==
    /\ pc[s] = "open"
    /\ tmp' = <<>>
    /\ fd' = [fd EXCEPT ![s] = "tmp"]
    /\ pc' = [pc EXCEPT ![s] = "write"]
    /\ UNCHANGED <<target, now, sessions, storage_path, needs_reload, ignore_next_events,
                   watcher, pending, cb, call, ret, pre, saves, dropped, dir, errors,
                   others, failed, cliVars, srvVars>>

\* faulty variant: save writes the map as it was before the operation's change
WriteTmpStale(s) ==
    LET contents == Serialize(pre[s])
    IN  /\ pc[s] = "write"
        /\ tmp' = IF fd[s] = "tmp" THEN Overlay(tmp, contents) ELSE tmp
        /\ target' = IF fd[s] = "target" THEN Overlay(target, contents) ELSE target
        /\ IF fd[s] = "target" THEN Notify(1) ELSE pending' = pending
        /\ fd' = [fd EXCEPT ![s] = "none"]
        /\ pc' = [pc EXCEPT ![s] = "rename"]
        /\ UNCHANGED <<now, sessions, storage_path, needs_reload, ignore_next_events,
                       watcher, cb, call, ret, pre, saves, dropped, dir, errors,
                       others, failed, cliVars, srvVars>>

\* save: std::fs::write writes the serialized map through the open file,
\* wherever a rename by another process has moved that file meanwhile
WriteTmp(s) ==
    LET contents == Serialize(sessions[s])
    IN  /\ pc[s] = "write"
        /\ tmp' = IF fd[s] = "tmp" THEN Overlay(tmp, contents) ELSE tmp
        /\ target' = IF fd[s] = "target" THEN Overlay(target, contents) ELSE target
        /\ IF fd[s] = "target" THEN Notify(1) ELSE pending' = pending
        /\ fd' = [fd EXCEPT ![s] = "none"]
        /\ pc' = [pc EXCEPT ![s] = "rename"]
        /\ UNCHANGED <<now, sessions, storage_path, needs_reload, ignore_next_events,
                       watcher, cb, call, ret, pre, saves, dropped, dir, errors,
                   others, failed, cliVars, srvVars>>

\* save: std::fs::rename(temp_path, storage_path), producing k events, and
\* the operation's return
Rename(s, k) ==
    /\ pc[s] = "rename"
    /\ pc' = [pc EXCEPT ![s] = "ret"]
    /\ IF tmp = NoFile
       THEN /\ ret' = [ret EXCEPT ![s] = Ret(FALSE, FALSE, 0)]
            /\ UNCHANGED <<target, tmp, fd, pending, saves, failed>>
       ELSE /\ target' = tmp
            /\ tmp' = NoFile
            /\ fd' = [w \in Stores |-> CASE fd[w] = "tmp" -> "target"
                                         [] fd[w] = "target" -> "orphan"
                                         [] OTHER -> fd[w]]
            /\ Notify(k)
            /\ saves' = [saves EXCEPT ![s] = saves[s] + 1]
            /\ failed' = [failed EXCEPT ![s] = FALSE]
            /\ ret' = [ret EXCEPT ![s] = OkRet(call[s], sessions[s])]
    /\ UNCHANGED <<now, sessions, storage_path, needs_reload, ignore_next_events,
                   watcher, cb, call, pre, dropped, dir, errors,
                   others, cliVars, srvVars>>

\* the operation hands its result to the caller
Return(s) ==
    /\ pc[s] = "ret"
    /\ pc' = [pc EXCEPT ![s] = "idle"]
    /\ call' = [call EXCEPT ![s] = NoCall]
    /\ ret' = [ret EXCEPT ![s] = Ret(TRUE, FALSE, 0)]
    /\ pre' = [pre EXCEPT ![s] = EmptyMap]
    /\ saves' = [saves EXCEPT ![s] = 0]
    /\ UNCHANGED <<target, tmp, now, sessions, storage_path, needs_reload,
                   ignore_next_events, watcher, pending, cb, fd, dropped, dir, errors,
                   others, failed, cliVars, srvVars>>

\* ------------------------------------------------------------ change watcher
\* faulty variant: the callback marks the store for reload also when it
\* counts the event as one of its own
CbReadAlwaysFlags(s) ==
    /\ watcher[s]
    /\ pending[s] > 0
    /\ cb[s] = -1
    /\ pending' = [pending EXCEPT ![s] = pending[s] - 1]
    /\ cb' = IF ignore_next_events[s] > 0 THEN [cb EXCEPT ![s] = ignore_next_events[s]] ELSE cb
    /\ needs_reload' = [needs_reload EXCEPT ![s] = TRUE]
    /\ UNCHANGED <<target, tmp, now, pc, sessions, storage_path, ignore_next_events,
                   watcher, fd, call, ret, pre, saves, dropped, dir, errors,
                   others, failed, cliVars, srvVars>>

\* faulty variant: the callback never marks the store for reload
CbReadNoFlag(s) ==
    /\ watcher[s]
    /\ pending[s] > 0
    /\ cb[s] = -1
    /\ pending' = [pending EXCEPT ![s] = pending[s] - 1]
    /\ cb' = IF ignore_next_events[s] > 0 THEN [cb EXCEPT ![s] = ignore_next_events[s]] ELSE cb
    /\ UNCHANGED <<target, tmp, now, pc, sessions, storage_path, needs_reload,
                   ignore_next_events, watcher, fd, call, ret, pre, saves, dropped, dir, errors,
                   others, failed, cliVars, srvVars>>

\* The callback receives a create/modify event and loads ignore_next_events;
\* at 0 it stores true to needs_reload.
CbRead(s) ==
    /\ watcher[s]
    /\ pending[s] > 0
    /\ cb[s] = -1
    /\ pending' = [pending EXCEPT ![s] = pending[s] - 1]
    /\ IF ignore_next_events[s] > 0
       THEN /\ cb' = [cb EXCEPT ![s] = ignore_next_events[s]]
            /\ needs_reload' = needs_reload
       ELSE /\ cb' = cb
            /\ needs_reload' = [needs_reload EXCEPT ![s] = TRUE]
    /\ UNCHANGED <<target, tmp, now, pc, sessions, storage_path, ignore_next_events,
                   watcher, fd, call, ret, pre, saves, dropped, dir, errors,
                   others, failed, cliVars, srvVars>>

\* usize::saturating_sub
saturating_sub(a, b) == IF a >= b THEN a - b ELSE 0

\* faulty variant: the callback stores only while the caller is between operations
CbWriteWaits(s) ==
    /\ cb[s] # -1
    /\ pc[s] = "idle"
    /\ ignore_next_events' = [ignore_next_events EXCEPT ![s] = saturating_sub(cb[s], 1)]
    /\ cb' = [cb EXCEPT ![s] = -1]
    /\ UNCHANGED <<target, tmp, now, pc, sessions, storage_path, needs_reload,
                   watcher, pending, fd, call, ret, pre, saves, dropped, dir, errors,
                   others, failed, cliVars, srvVars>>

\* The callback stores current.saturating_sub(1) and returns
CbWrite(s) ==
    /\ cb[s] # -1
    /\ ignore_next_events' = [ignore_next_events EXCEPT ![s] = saturating_sub(cb[s], 1)]
    /\ cb' = [cb EXCEPT ![s] = -1]
    /\ UNCHANGED <<target, tmp, now, pc, sessions, storage_path, needs_reload,
                   watcher, pending, fd, call, ret, pre, saves, dropped, dir, errors,
                   others, failed, cliVars, srvVars>>

\* --------------------------------------------------------------- environment
\* contents a process that is not a store puts into the target file
ExtContents ==
    { <<Space>>, <<LBrace, Junk>>,
      Serialize(Insert(EmptyMap, "a", SessionEntry(MaxData, 0, 0))) }

\* another program rewrites the target file in place, producing k events
ExtWrite(c, k) ==
    /\ target # NoFile
    /\ target # c
    /\ target' = c
    /\ Notify(k)
    /\ UNCHANGED <<tmp, now, pc, sessions, storage_path, needs_reload, ignore_next_events,
                   watcher, cb, fd, call, ret, pre, saves, dropped, dir, errors,
                   others, failed, cliVars, srvVars>>

\* -------------------------------------------------------------------- faults
\* new returns Err and no store is produced: create_dir_all fails on a missing
\* directory, the open/create fails, load's read fails, or the watcher fails
NewFail(s) ==
    /\ pc[s] \in {"closed", "create", "newload", "watch"}
    /\ pc[s] = "closed" => ~dir
    /\ ret' = [ret EXCEPT ![s] = Ret(FALSE, FALSE, 0)]
    /\ call' = [call EXCEPT ![s] = NoCall]
    /\ pre' = [pre EXCEPT ![s] = EmptyMap]
    /\ saves' = [saves EXCEPT ![s] = 0]
    /\ dropped' = [dropped EXCEPT ![s] = EmptyMap]
    /\ Gone(s)

\* faulty variant: a failed reload still clears needs_reload
LoadFailClears(s) ==
    /\ pc[s] = "load"
    /\ storage_path[s] = "P"
    /\ target # NoFile
    /\ ret' = [ret EXCEPT ![s] = Ret(FALSE, FALSE, 0)]
    /\ pc' = [pc EXCEPT ![s] = "ret"]
    /\ needs_reload' = [needs_reload EXCEPT ![s] = FALSE]
    /\ UNCHANGED <<target, tmp, now, sessions, storage_path,
                   ignore_next_events, watcher, pending, cb, fd, call, pre, saves, dropped,
                   dir, errors,
                   others, failed, cliVars, srvVars>>

\* check_and_reload: read_to_string fails and self.load()? returns the error
LoadFail(s) ==
    /\ pc[s] = "load"
    /\ storage_path[s] = "P"
    /\ target # NoFile
    /\ ret' = [ret EXCEPT ![s] = Ret(FALSE, FALSE, 0)]
    /\ pc' = [pc EXCEPT ![s] = "ret"]
    /\ UNCHANGED <<target, tmp, now, sessions, storage_path, needs_reload,
                   ignore_next_events, watcher, pending, cb, fd, call, pre, saves, dropped,
                   dir, errors,
                   others, failed, cliVars, srvVars>>

\* faulty variant: an error result marks the store for reload
CbErrorFlags(s) ==
    /\ watcher[s]
    /\ cb[s] = -1
    /\ errors[s] < MaxErrors
    /\ errors' = [errors EXCEPT ![s] = errors[s] + 1]
    /\ needs_reload' = [needs_reload EXCEPT ![s] = TRUE]
    /\ UNCHANGED <<target, tmp, now, pc, sessions, storage_path,
                   ignore_next_events, watcher, pending, cb, fd, call, ret, pre, saves,
                   dropped, dir,
                   others, failed, cliVars, srvVars>>

\* The callback is invoked with an Err(notify::Error): `if let Ok(event) = res`
\* does not match and the callback returns
CbError(s) ==
    /\ watcher[s]
    /\ cb[s] = -1
    /\ errors[s] < MaxErrors
    /\ errors' = [errors EXCEPT ![s] = errors[s] + 1]
    /\ UNCHANGED <<target, tmp, now, pc, sessions, storage_path, needs_reload,
                   ignore_next_events, watcher, pending, cb, fd, call, ret, pre, saves,
                   dropped, dir,
                   others, failed, cliVars, srvVars>>

\* faulty variant: a failed save takes the change of the map back
SaveFailRollsBack(s) ==
    /\ pc[s] \in {"open", "write", "rename"}
    /\ ret' = [ret EXCEPT ![s] = Ret(FALSE, FALSE, 0)]
    /\ pc' = [pc EXCEPT ![s] = "ret"]
    /\ fd' = [fd EXCEPT ![s] = "none"]
    /\ failed' = [failed EXCEPT ![s] = TRUE]
    /\ sessions' = [sessions EXCEPT ![s] = pre[s]]
    /\ UNCHANGED <<target, tmp, now, storage_path, needs_reload,
                   ignore_next_events, watcher, pending, cb, call, pre, saves, dropped,
                   dir, errors, others, cliVars, srvVars>>

\* save returns an error: to_string_pretty or the creation of the temp file
\* fails (at "open"), the write to it fails (at "write", the file stays
\* truncated), or the rename fails (at "rename").  `self.save()?` hands the
\* error to the caller of get_or_create / update / set.
SaveFail(s) ==
    /\ pc[s] \in {"open", "write", "rename"}
    /\ ret' = [ret EXCEPT ![s] = Ret(FALSE, FALSE, 0)]
    /\ pc' = [pc EXCEPT ![s] = "ret"]
    /\ fd' = [fd EXCEPT ![s] = "none"]
    /\ failed' = [failed EXCEPT ![s] = TRUE]
    /\ UNCHANGED <<target, tmp, now, sessions, storage_path, needs_reload,
                   ignore_next_events, watcher, pending, cb, call, pre, saves, dropped,
                   dir, errors, others, cliVars, srvVars>>

\* faulty variant: an event of another kind marks the store for reload
CbOtherFlags(s) ==
    /\ watcher[s]
    /\ cb[s] = -1
    /\ others[s] < MaxOthers
    /\ others' = [others EXCEPT ![s] = others[s] + 1]
    /\ needs_reload' = [needs_reload EXCEPT ![s] = TRUE]
    /\ UNCHANGED <<target, tmp, now, pc, sessions, storage_path,
                   ignore_next_events, watcher, pending, cb, fd, call, ret, pre, saves,
                   dropped, dir, errors, failed, cliVars, srvVars>>

\* The callback receives an event that is neither Modify nor Create (access,
\* remove, ..): the `_ => {}` arm
CbOther(s) ==
    /\ watcher[s]
    /\ cb[s] = -1
    /\ others[s] < MaxOthers
    /\ others' = [others EXCEPT ![s] = others[s] + 1]
    /\ UNCHANGED <<target, tmp, now, pc, sessions, storage_path, needs_reload,
                   ignore_next_events, watcher, pending, cb, fd, call, ret, pre, saves,
                   dropped, dir, errors, failed, cliVars, srvVars>>

\* ------------------------------------------------- mcplease create / add
\* A name is the words heck splits it into and the way they are joined:
\* "good_bye" is <<"good", "bye">> joined as "snake", "GoodBye" the same words
\* joined as "pascal", "good-bye" joined as "kebab".
Name(words, style) == [words |-> words, style |-> style]

ToolNames ==
    { Name(<<"hello">>, "snake"), Name(<<"hello">>, "pascal"),
      Name(<<"good", "bye">>, "snake"), Name(<<"good", "bye">>, "kebab"),
      Name(<<"2fa">>, "snake") }

\* words that start with a digit
DigitWords == {"2fa"}

\* heck::ToSnakeCase
to_snake_case(n) == Name(n.words, "snake")

\* heck::ToPascalCase
to_pascal_case(n) == Name(n.words, "pascal")

\* proc_macro2::Ident::new accepts the text: format_ident! panics otherwise,
\* and syn does not parse the text as an Ident
IsIdent(n) ==
    /\ n.words # <<>>
    /\ n.style \in {"snake", "pascal"}
    /\ Head(n.words) \notin DigitWords

\* One `(Struct, module, "name")` entry of the tools! macro
ToolEntry(struct_name, mod_name, string_name) ==
    [struct_name |-> struct_name, mod_name |-> mod_name, string_name |-> string_name]

\* the entry add and create write for a tool name
NewEntry(n) == ToolEntry(to_pascal_case(n), to_snake_case(n), to_snake_case(n))

\* src/tools.rs: the use item and the arguments of the tools! macro
ToolsRs(entries) == [uses |-> "State", state_type |-> "State", tools |-> entries]

\* parse2 of the macro arguments into ToolsMacroArgs succeeds
ArgsOk(file) ==
    \A i \in 1..Len(file.tools) :
        IsIdent(file.tools[i].struct_name) /\ IsIdent(file.tools[i].mod_name)

\* regenerate_tools_file: the other items and a new macro with the arguments
regenerate_tools_file(file, tools) == ToolsRs(tools)

\* generate_tool_file: src/tools/<snake>.rs holding the struct <Pascal>
ToolFile(n) == [file |-> to_snake_case(n), tool |-> to_pascal_case(n)]

\* what create's generate_tool_file loop has written when it stops
RECURSIVE CreatedFiles(_)
CreatedFiles(tools) ==
    IF tools = <<>> \/ ~IsIdent(to_pascal_case(Head(tools))) THEN {}
    ELSE {ToolFile(Head(tools))} \cup CreatedFiles(Tail(tools))

Command(cmd, name, result) == [cmd |-> cmd, name |-> name, result |-> result]

\* mcplease create --tools ..: main refuses an existing directory; otherwise
\* create_project writes tools.rs and then one file per tool
CreateProject(tools) ==
    /\ project' =
          [tools_rs |-> IF tools_rs # NoProject THEN tools_rs
                        ELSE ToolsRs([i \in 1..Len(tools) |-> NewEntry(tools[i])]),
           tool_files |-> IF tools_rs # NoProject THEN tool_files ELSE CreatedFiles(tools),
           cli |-> Command("create", tools,
                           IF tools_rs # NoProject THEN "err"
                           ELSE IF \A i \in 1..Len(tools) : IsIdent(to_pascal_case(tools[i]))
                           THEN "ok" ELSE "panic")]
    /\ UNCHANGED <<storeVars, srvVars>>

\* mcplease add --tool name: add_tool_to_project_impl
AddTool(name) ==
    LET snake_name == to_snake_case(name)
        exists == \E i \in 1..Len(tools_rs.tools) : tools_rs.tools[i].string_name = snake_name
        tools == Append(tools_rs.tools, NewEntry(name))
    IN  IF tools_rs = NoProject \/ ~ArgsOk(tools_rs) \/ exists
        THEN /\ project' = [project EXCEPT !.cli = Command("add", <<name>>, "err")]
             /\ UNCHANGED <<storeVars, srvVars>>
        ELSE IF ~IsIdent(to_pascal_case(name))
        THEN /\ project' = [project EXCEPT !.cli = Command("add", <<name>>, "panic")]
             /\ UNCHANGED <<storeVars, srvVars>>
        ELSE /\ Len(tools_rs.tools) < MaxTools
             /\ project' = [tools_rs |-> regenerate_tools_file(tools_rs, tools),
                            tool_files |-> tool_files \cup {ToolFile(name)},
                            cli |-> Command("add", <<name>>, "ok")]
             /\ UNCHANGED <<storeVars, srvVars>>

\* ------------------------------------------------------------ mcplease serve
\* A line of input.  json: the line is a JSON object; the other fields are the
\* object's members, extra meaning a member other than the four named ones.
Line(json, jsonrpc, id, method, params, extra) ==
    [json |-> json, jsonrpc |-> jsonrpc, id |-> id, method |-> method,
     params |-> params, extra |-> extra]

RequestLine(id, method, params) == Line(TRUE, "2.0", id, method, params, FALSE)

NotificationLine(method) == Line(TRUE, "2.0", Absent, method, NoParams, FALSE)

Garbage == Line(FALSE, Absent, Absent, Absent, NoParams, FALSE)

\* the literals of the tools! invocation: bump adds one to the state, fail
\* returns an error
ToolStrings == {"bump", "fail"}

\* params of tools/call the client sends
CallParams ==
    { Params("object", "bump", "good"),     \* a known tool, arguments decode
      Params("object", "fail", "good"),
      Params("object", "bump", "bad"),      \* arguments do not decode
      Params("object", "nope", "good"),     \* unknown tool
      Params("object", "bump", Absent),     \* no arguments member
      Params("array", Absent, Absent),      \* not an object
      NoParams }

\* the lines the client may write
Lines ==
    { RequestLine("1", "tools/call", p) : p \in CallParams }
    \cup { RequestLine("1", "initialize", NoParams),
           RequestLine("2", "tools/list", NoParams),
           RequestLine("2", "tools/call", Params("object", "bump", "good")),
           RequestLine("null", "ping", NoParams),
           NotificationLine("notifications/initialized"),
           Line(TRUE, "2.0", Absent, "notifications/initialized", NoParams, TRUE),
           Line(TRUE, "2.0", "1", Absent, NoParams, FALSE),
           Garbage }

\* one line of each kind the loop tells apart, the requests with different ids
LineKinds ==
    { RequestLine("1", "initialize", NoParams),
      RequestLine("2", "tools/call", Params("object", "bump", "good")),
      RequestLine("null", "ping", NoParams),
      NotificationLine("notifications/initialized"),
      Line(TRUE, "2.0", "1", Absent, NoParams, FALSE),
      Garbage }

\* deserialize_request: the value has an id, and from_value::<McpRequest>
\* finds jsonrpc and method; params is optional, other members are ignored.
deserialize_request(l) == l.id # Absent /\ l.jsonrpc # Absent /\ l.method # Absent

\* McpNotification: jsonrpc and method, params optional, deny_unknown_fields
deserialize_notification(l) ==
    l.jsonrpc # Absent /\ l.method # Absent /\ l.id = Absent /\ ~l.extra

\* serde_json::from_str::<McpMessage>: untagged, Request is tried first
from_str(l) ==
    IF ~l.json THEN "Err"
    ELSE IF deserialize_request(l) THEN "Request"
    ELSE IF deserialize_notification(l) THEN "Notification"
    ELSE "Err"

\* McpResponse::success
success(id, result) == McpResponse(id, <<result>>, <<>>)

\* faulty variant: an error response with the code of an internal error
errorInternal(id, message) ==
    McpResponse(id, <<>>, <<[code |-> -32603, message |-> message]>>)

\* McpResponse::error
error(id, message) ==
    McpResponse(id, <<>>, <<[code |-> -32601, message |-> message]>>)

\* Deserialize for Tools: "Ok" or the error's message
deserialize_tools(p) ==
    IF p.kind # "object" THEN "expected object"
    ELSE IF p.name = Absent THEN "missing field name"
    ELSE IF p.arguments = Absent THEN "missing field arguments"
    ELSE IF p.name \in ToolStrings
         THEN IF p.arguments = "good" THEN "Ok" ELSE "invalid arguments"
    ELSE "unknown variant"

\* Tool::execute of the decoded tool: <<result, state afterwards>>
tool_execute(name, st) ==
    IF name = "bump" THEN <<"Ok", (st + 1) % (MaxCount + 1)>> ELSE <<"Err", st>>

\* McpRequest::execute: <<response, state afterwards>>
execute(r, st) ==
    CASE r.method = "initialize" -> <<success(r.id, "InitializeResponse"), st>>
      [] r.method = "tools/list" -> <<success(r.id, "ToolsListResponse"), st>>
      [] r.method = "tools/call" ->
            IF deserialize_tools(r.params) = "Ok"
            THEN LET run == tool_execute(r.params.name, st)
                 IN  IF run[1] = "Ok"
                     THEN <<success(r.id, "ContentResponse"), run[2]>>
                     ELSE <<error(r.id, "tool failed"), run[2]>>
            ELSE <<error(r.id, deserialize_tools(r.params)), st>>
      [] OTHER -> <<error(r.id, "Unknown method"), st>>

\* serde_json::to_string of a response: a None result or error is skipped
to_string(r) ==
    IF r.result # <<>> /\ r.error = <<>>
    THEN [jsonrpc |-> r.jsonrpc, id |-> r.id, result |-> r.result[1]]
    ELSE IF r.result = <<>> /\ r.error # <<>>
    THEN [jsonrpc |-> r.jsonrpc, id |-> r.id, error |-> r.error[1]]
    ELSE [jsonrpc |-> r.jsonrpc, id |-> r.id]

\* the client writes a line
Feed(l) ==
    /\ ending = "open"
    /\ Len(stdin) + Len(taken) < MaxLines
    /\ srv' = [srv EXCEPT !.stdin = Append(stdin, l)]
    /\ UNCHANGED <<storeVars, cliVars>>

\* the client closes the stream (e = "eof"), or reading fails once the lines
\* written so far are consumed (e = "err")
Close(e) ==
    /\ ending = "open"
    /\ srv' = [srv EXCEPT !.ending = e]
    /\ UNCHANGED <<storeVars, cliVars>>

\* run() with first argument "serve": serve up to the loop
Serve ==
    /\ serve_pc = "off"
    /\ srv' = [srv EXCEPT !.pc = "read"]
    /\ UNCHANGED <<storeVars, cliVars>>

\* the request a line parses to
AsRequest(l) == McpRequest(l.jsonrpc, l.id, l.method, l.params)

\* faulty variant: a line that does not parse ends the loop
ReadLineStops ==
    /\ serve_pc = "read"
    /\ stdin # <<>>
    /\ srv' = [srv EXCEPT
                 !.stdin = Tail(stdin),
                 !.taken = Append(taken, Head(stdin)),
                 !.request = IF from_str(Head(stdin)) = "Request"
                             THEN AsRequest(Head(stdin)) ELSE request,
                 !.pc = CASE from_str(Head(stdin)) = "Request" -> "exec"
                          [] from_str(Head(stdin)) = "Err" -> "ok"
                          [] OTHER -> "read"]
    /\ UNCHANGED <<storeVars, cliVars>>

\* read_line returns Ok(n), n > 0, and the line is parsed: a request goes on
\* to execute, a notification or a parse error is logged and the loop goes on
ReadLine ==
    /\ serve_pc = "read"
    /\ stdin # <<>>
    /\ srv' = [srv EXCEPT
                 !.stdin = Tail(stdin),
                 !.taken = Append(taken, Head(stdin)),
                 !.request = IF from_str(Head(stdin)) = "Request"
                             THEN AsRequest(Head(stdin)) ELSE request,
                 !.pc = IF from_str(Head(stdin)) = "Request" THEN "exec" ELSE "read"]
    /\ UNCHANGED <<storeVars, cliVars>>

\* read_line returns Ok(0) or Err: break, and serve returns Ok(())
ReadEnd ==
    /\ serve_pc = "read"
    /\ stdin = <<>>
    /\ ending \in {"eof", "err"}
    /\ srv' = [srv EXCEPT !.pc = "ok"]
    /\ UNCHANGED <<storeVars, cliVars>>

\* request.execute(state, instructions, &server_info)
Execute ==
    /\ serve_pc = "exec"
    /\ srv' = [srv EXCEPT
                 !.response = execute(request, state)[1],
                 !.state = execute(request, state)[2],
                 !.pc = "write"]
    /\ UNCHANGED <<storeVars, cliVars>>

\* to_string, write_all of the line and the newline, flush
WriteOut ==
    /\ serve_pc = "write"
    /\ srv' = [srv EXCEPT
                 !.stdout = Append(stdout, to_string(response)),
                 !.request = NoRequest,
                 !.response = NoResponse,
                 !.pc = "read"]
    /\ UNCHANGED <<storeVars, cliVars>>

\* write_all or flush fails: `?` returns the error from serve
WriteFail ==
    /\ serve_pc = "write"
    /\ srv' = [srv EXCEPT
                 !.request = NoRequest,
                 !.response = NoResponse,
                 !.pc = "err"]
    /\ UNCHANGED <<storeVars, cliVars>>

\* a step of the server process
ServerStep == Serve \/ ReadLine \/ ReadEnd \/ Execute \/ WriteOut

\* ------------------------------------------------------------ specifications
\* One path-backed store that stays open, its watcher, and an external writer.
Next ==
    \/ New("A", "P")
    \/ Create("A")
    \/ NewLoad("A")
    \/ Watch("A")
    \/ \E op \in Ops, id \in Ids, f \in Mutators : Begin("A", op, id, f)
    \/ Load("A")
    \/ Clear("A")
    \/ \E t1, t2 \in Times : Body("A", t1, t2)
    \/ OpenTmp("A")
    \/ WriteTmp("A")
    \/ Rename("A", IgnoreCount)
    \/ Return("A")
    \/ CbRead("A")
    \/ CbWrite("A")
    \/ \E c \in ExtContents : ExtWrite(c, 1)

Spec == Init /\ [][Next]_vars

\* One path-backed store and its watcher; nothing else writes the file, and
\* the store may be dropped or its process stopped, and opened again.
NextSolo ==
    \/ New("A", "P")
    \/ Create("A")
    \/ NewLoad("A")
    \/ Watch("A")
    \/ Drop("A")
    \/ Crash("A")
    \/ \E op \in Ops, id \in Ids, f \in Mutators : Begin("A", op, id, f)
    \/ Load("A")
    \/ Clear("A")
    \/ \E t1, t2 \in Times : Body("A", t1, t2)
    \/ OpenTmp("A")
    \/ WriteTmp("A")
    \/ \E k \in 1..(IgnoreCount + 1) : Rename("A", k)
    \/ Return("A")
    \/ CbRead("A")
    \/ CbWrite("A")

SpecSolo == Init /\ [][NextSolo]_vars

\* ------------------------------------------------------------------- claims
\* s has just finished op with Ok and has not yet handed the result over
Returned(s, op) == pc[s] = "ret" /\ call[s].op = op /\ ret[s].ok

\* s takes a step of its own operation
Steps(s) == pc'[s] # pc[s] /\ pc[s] # "closed" /\ pc'[s] # "closed"

\* C1: get_or_create returns the entry's data; for an id absent from the map
\* it returns the default and saves exactly once; for an id present it saves
\* nothing and leaves the entry (data, last_used) as it was.
C1_GetOrCreate ==
    \A s \in Stores :
        Returned(s, "get_or_create") =>
            LET id == call[s].id
            IN  /\ id \in DOMAIN sessions[s]
                /\ ret[s] = Ret(TRUE, TRUE, sessions[s][id].data)
                /\ id \notin DOMAIN pre[s] =>
                      /\ ret[s].val = DefaultData
                      /\ saves[s] = 1
                      /\ sessions[s] = Insert(pre[s], id, sessions[s][id])
                /\ id \in DOMAIN pre[s] =>
                      /\ saves[s] = 0
                      /\ sessions[s] = pre[s]

C1_Witness ==
    \E s \in Stores :
        /\ Returned(s, "get_or_create")
        /\ call[s].id \notin DOMAIN pre[s]
        /\ pre[s] # EmptyMap
        /\ saves[s] = 1
        /\ target = Serialize(sessions[s])

IsUpdate(s) == call[s].op \in {"update", "set"}

\* the data of id in m, or the default a missing entry starts from
DataOr(m, id) == IF id \in DOMAIN m THEN m[id].data ELSE DefaultData

C2_Step(s) ==
    LET id == call[s].id
    IN  /\ (Steps(s) /\ pc[s] = "body" /\ IsUpdate(s)) =>
              /\ id \in DOMAIN sessions'[s]
              /\ sessions'[s][id].data = Apply(call[s].f, DataOr(sessions[s], id))
              /\ \A i \in DOMAIN sessions[s] \ {id} :
                    i \in DOMAIN sessions'[s] /\ sessions'[s][i] = sessions[s][i]
              /\ sessions'[s][id].data # DataOr(sessions[s], id) =>
                    /\ sessions'[s][id].metadata.last_used = now'
                    /\ pc'[s] = "open"
        /\ (Steps(s) /\ pc'[s] = "ret" /\ IsUpdate(s) /\ ret'[s].ok
              /\ sessions'[s][id].data # DataOr(pre[s], id)) =>
              /\ pc[s] = "rename"
              /\ saves'[s] = 1
              /\ target' = Serialize(sessions[s])

\* C2: update(id, f) leaves the data of id equal to f applied to the prior
\* data (the default for an absent id); when that differs from the data before
\* f ran, last_used becomes the clock reading and the operation returns only
\* after exactly one rename has put the serialized full map into the target.
C2_Update == [][\A s \in Stores : C2_Step(s)]_vars

C2_Witness ==
    \E s \in Stores :
        /\ Returned(s, "update")
        /\ call[s].id \in DOMAIN pre[s]
        /\ sessions[s][call[s].id].data # pre[s][call[s].id].data
        /\ sessions[s][call[s].id].metadata.last_used > pre[s][call[s].id].metadata.last_used
        /\ saves[s] = 1
        /\ target = Serialize(sessions[s])

\* C3 as stated: update(id, identity) never saves and changes no last_used,
\* whether or not id is in the map.
C3_Original ==
    \A s \in Stores :
        (Returned(s, "update") /\ call[s].f = Identity) =>
            /\ saves[s] = 0
            /\ \A i \in DOMAIN pre[s] :
                  i \in DOMAIN sessions[s]
                  /\ sessions[s][i].metadata.last_used = pre[s][i].metadata.last_used

\* C3 amended: update(id, identity) on an id that is in the map saves nothing
\* and leaves the whole map, every last_used included, as it was; on an id
\* that is not in the map it inserts a default entry and saves once.
C3_NoOpUpdate ==
    \A s \in Stores :
        (Returned(s, "update") /\ call[s].f = Identity) =>
            LET id == call[s].id
            IN  /\ id \in DOMAIN pre[s] => saves[s] = 0 /\ sessions[s] = pre[s]
                /\ id \notin DOMAIN pre[s] =>
                      /\ saves[s] = 1
                      /\ id \in DOMAIN sessions[s]
                      /\ sessions[s][id].data = DefaultData
                      /\ sessions[s] = Insert(pre[s], id, sessions[s][id])

C3_Witness ==
    \E s \in Stores :
        /\ Returned(s, "update")
        /\ call[s].f = Identity
        /\ call[s].id \in DOMAIN pre[s]
        /\ pre[s][call[s].id].data # DefaultData
        /\ saves[s] = 0

\* C4: after set(id, v) the data of id is v and no other entry changed; on an
\* existing id holding v already nothing is saved and the map, last_used
\* included, is as before; on an existing id holding another value the set
\* saves exactly once and last_used is the clock reading; on an id not in
\* the map it saves exactly once.
C4_Set ==
    \A s \in Stores :
        Returned(s, "set") =>
            LET id == call[s].id
                v == call[s].f.v
            IN  /\ id \in DOMAIN sessions[s]
                /\ sessions[s][id].data = v
                /\ sessions[s] = Insert(pre[s], id, sessions[s][id])
                /\ (id \in DOMAIN pre[s] /\ pre[s][id].data = v) =>
                      saves[s] = 0 /\ sessions[s] = pre[s]
                /\ id \notin DOMAIN pre[s] => saves[s] = 1
                /\ (id \in DOMAIN pre[s] /\ pre[s][id].data # v) =>
                      /\ saves[s] = 1
                      /\ sessions[s][id].metadata.last_used = now
                      /\ sessions[s][id].metadata.created_at = pre[s][id].metadata.created_at

C4_Witness ==
    \E s \in Stores :
        /\ Returned(s, "set")
        /\ call[s].id \in DOMAIN pre[s]
        /\ pre[s][call[s].id].data = call[s].f.v
        /\ call[s].f.v # DefaultData
        /\ pre[s][call[s].id].metadata.last_used < now
        /\ saves[s] = 0

C5_Step(s) ==
    (Steps(s) /\ call'[s].op = "get") =>
        /\ UNCHANGED <<target, tmp, ignore_next_events, saves, fd>>
        /\ pc[s] # "load" => sessions'[s] = sessions[s]
        /\ pc[s] = "load" => needs_reload[s]
        /\ pc'[s] # "open"
        /\ pc'[s] = "ret" =>
              /\ ret'[s].ok
              /\ ret'[s].some <=> call[s].id \in DOMAIN sessions[s]
              /\ ret'[s].some => ret'[s].val = sessions[s][call[s].id].data

\* C5: no step of get writes a file, starts a save or touches
\* ignore_next_events; only its load step, taken when needs_reload was set,
\* changes the map; it returns absent exactly when id is not in the map and
\* otherwise that entry's data.
C5_Get == [][\A s \in Stores : C5_Step(s)]_vars

C5_Witness ==
    \E s \in Stores :
        /\ Returned(s, "get")
        /\ ~ret[s].some
        /\ sessions[s] # EmptyMap
        /\ ignore_next_events[s] > 0

C6_Step(s) ==
    /\ sessions'[s] # sessions[s] => pc'[s] # pc[s]
    /\ Steps(s) =>
          /\ pc'[s] = "body" => (pc[s] = "idle" /\ ~needs_reload[s]) \/ pc[s] = "clear"
          /\ pc'[s] = "clear" => pc[s] = "load"
          /\ pc'[s] = "load" => pc[s] = "idle" /\ needs_reload[s]
          /\ (pc[s] = "idle" /\ needs_reload[s]) => pc'[s] = "load"
          /\ sessions'[s] # sessions[s] =>
                /\ pc[s] \in {"newload", "load", "body"}
                /\ pc[s] = "body" =>
                      sessions'[s] = Insert(sessions[s], call[s].id, sessions'[s][call[s].id])

\* C6: an operation reaches its map work only through the needs_reload check,
\* with the load done first when the flag was set; the map is replaced from
\* the file in that load step (and in the load of new) alone, and no step that is not the store's own
\* operation (the watcher callback, another process) changes the map.
C6_ReloadFirst == [][\A s \in Stores : C6_Step(s)]_vars

C6_Witness ==
    \E s \in Stores :
        /\ pc[s] = "body"
        /\ call[s].op = "update"
        /\ sessions[s] # EmptyMap
        /\ ParseOk(target)
        /\ sessions[s] = Parse(target)
        /\ ~needs_reload[s]
        /\ ignore_next_events[s] = 0
        /\ saves[s] = 0
        /\ "b" \in DOMAIN sessions[s] /\ sessions[s]["b"].data = MaxData

\* C7 (no other writer): a store opened on the path after the previous store
\* value was dropped between two operations loads, for every id the dropped
\* store held, the data that id last had there.
C7_RoundTrip ==
    \A s \in Stores :
        pc[s] = "watch" =>
            \A id \in DOMAIN dropped[s] :
                /\ id \in DOMAIN sessions[s]
                /\ sessions[s][id].data = dropped[s][id].data

C7_Witness ==
    \E s \in Stores :
        /\ pc[s] = "watch"
        /\ DOMAIN dropped[s] = Ids
        /\ dropped[s]["a"].data = MaxData
        /\ dropped[s]["b"].data = DefaultData
        /\ dropped[s]["b"].metadata.last_used > dropped[s]["b"].metadata.created_at
        /\ sessions[s] = dropped[s]

InSave(s) == pc[s] \in {"open", "write", "rename"}

C8_Step(s) ==
    /\ (InSave(s) /\ pc'[s] = "closed") =>
          /\ target' = IF pre[s] = EmptyMap THEN <<>> ELSE Serialize(pre[s])
          /\ LoadFrom(EmptyMap, target') = pre[s]
    /\ (pc[s] = "ret" /\ saves[s] = 1 /\ pc'[s] = "closed") =>
          /\ target' = Serialize(sessions[s])
          /\ LoadFrom(EmptyMap, target') = sessions[s]
    /\ (pc[s] = "newload" /\ pc'[s] = "watch") =>
          sessions'[s] = LoadFrom(EmptyMap, target)

\* C8 (no other writer): when the process stops inside save before the rename,
\* the target holds exactly the content from before the save and a store
\* opened afterwards loads the map from before the operation; when it stops
\* after the rename, the target holds the complete serialization of the new
\* map.
C8_Interrupted == [][\A s \in Stores : C8_Step(s)]_vars

C8_Witness ==
    \E s \in Stores :
        /\ pc[s] = "watch"
        /\ tmp # NoFile
        /\ ParseOk(tmp)
        /\ ParseOk(target)
        /\ Parse(tmp) # Parse(target)
        /\ sessions[s] = Parse(target)

\* the ids and data of the entry tokens of a file content
FileIds(c) == {c[i].id : i \in {j \in 1..Len(c) : c[j].k = "entry"}}

C10_Step(s) ==
    /\ (Steps(s) /\ pc[s] = "load") =>
          /\ pc'[s] = "clear"
          /\ (Len(Trim(target)) = 0 \/ ~ParseOk(target)) => sessions'[s] = sessions[s]
          /\ (Len(Trim(target)) > 0 /\ ParseOk(target)) =>
                /\ DOMAIN sessions'[s] = FileIds(target)
                /\ \A i \in 1..Len(target) :
                      target[i].k = "entry" =>
                          sessions'[s][target[i].id] =
                              SessionEntry(target[i].data, target[i].created_at, target[i].last_used)
    /\ (Steps(s) /\ pc'[s] = "ret") => ret'[s].ok

\* C10: a reload that reads content empty after trimming, or content that
\* does not parse, leaves the map as it was and the operation goes on and
\* returns Ok; content that parses replaces the map by exactly the entries of
\* the file.
C10_CorruptLoad == [][\A s \in Stores : C10_Step(s)]_vars

C10_Witness ==
    \E s \in Stores :
        /\ Returned(s, "get")
        /\ ret[s].some
        /\ ret[s].val = MaxData
        /\ ~ParseOk(target)
        /\ Len(Trim(target)) > 0
        /\ ~needs_reload[s] /\ pending[s] = 0 /\ ignore_next_events[s] = 0 /\ cb[s] = -1

\* Two path-backed stores in two processes on the same path, each setting
\* its own id.
NextTwo ==
    \E s \in Stores :
        \/ New(s, "P")
        \/ Create(s)
        \/ NewLoad(s)
        \/ Watch(s)
        \/ \E id \in Ids : Begin(s, "set", id, Replace(MaxData))
        \/ Load(s)
        \/ Clear(s)
        \/ Body(s, now, now)
        \/ OpenTmp(s)
        \/ WriteTmp(s)
        \/ Rename(s, IgnoreCount)
        \/ Return(s)
        \/ CbRead(s)
        \/ CbWrite(s)

SpecTwo == Init /\ [][NextTwo]_vars

\* C9: the target file is never seen truncated or partially written: once
\* it exists, every change of its content puts there the complete
\* serialization of the map of a store that is in save.
C9_NoPartialTarget ==
    [][(target' # target /\ target # NoFile) =>
          \E s \in Stores : InSave(s) /\ target' = Serialize(sessions[s])]_vars

\* C13: when two stores on the same path save concurrently, every rename
\* that succeeds leaves in the target exactly the serialized map of the
\* store that renamed, and nothing but such a rename changes the content of
\* the target, so the file holds the full map of the last store to rename.
C13_LastWriterWins ==
    [][/\ \A s \in Stores : saves'[s] > saves[s] => target' = Serialize(sessions[s])
       /\ (target' # target /\ target # NoFile) => \E s \in Stores : saves'[s] > saves[s]]_vars

\* Two path-backed stores in two processes on the same path: A sets the
\* value of one id, B reads.
NextShare ==
    \/ \E s \in Stores :
          \/ New(s, "P")
          \/ Create(s)
          \/ NewLoad(s)
          \/ Watch(s)
          \/ Load(s)
          \/ Clear(s)
          \/ Body(s, now, now)
          \/ OpenTmp(s)
          \/ WriteTmp(s)
          \/ Rename(s, IgnoreCount)
          \/ Return(s)
          \/ CbRead(s)
          \/ CbWrite(s)
    \/ \E v \in Data : Begin("A", "set", "a", Replace(v))
    \/ \E id \in Ids : Begin("B", "get", id, Identity)

SpecShare == Init /\ [][NextShare]_vars

C11_Step(s) ==
    /\ (pending'[s] < pending[s] /\ ignore_next_events[s] = 0) => needs_reload'[s]
    /\ (pc[s] = "idle" /\ needs_reload[s] /\ pc'[s] # "idle") => pc'[s] = "load"
    /\ (pc[s] = "load" /\ pc'[s] # "load") =>
          \A w \in Stores \ {s} :
              (saves[w] = 1 /\ target = Serialize(sessions[w])) =>
                  sessions'[s] = sessions[w] /\ pre'[s] = sessions[w]
    /\ pc[s] \in {"clear", "body"} => sessions[s] = pre[s]
    /\ (pc[s] = "body" /\ pc'[s] = "ret" /\ call[s].op = "get") =>
          ret'[s] = IF call[s].id \in DOMAIN pre[s]
                    THEN Ret(TRUE, TRUE, pre[s][call[s].id].data)
                    ELSE Ret(TRUE, FALSE, 0)

NextFault ==
    \/ \E p \in {"P", "none"} : New("A", p)
    \/ Create("A")
    \/ NewLoad("A")
    \/ Watch("A")
    \/ NewFail("A")
    \/ Drop("A")
    \/ \E op \in Ops, f \in Mutators : Begin("A", op, "a", f)
    \/ Load("A")
    \/ LoadFail("A")
    \/ Clear("A")
    \/ \E t1, t2 \in Times : Body("A", t1, t2)
    \/ OpenTmp("A")
    \/ WriteTmp("A")
    \/ \E k \in 1..IgnoreCount : Rename("A", k)
    \/ Return("A")
    \/ CbRead("A")
    \/ CbWrite("A")
    \/ CbError("A")
    \/ CbOther("A")
    \/ \E c \in ExtContents : ExtWrite(c, 1)

SpecFault == Init /\ [][NextFault]_vars

C12_New(s) ==
    (pc[s] = "closed" /\ pc'[s] = "idle") =>
        /\ storage_path'[s] = "none"
        /\ sessions'[s] = EmptyMap
        /\ UNCHANGED <<target, tmp, dir>>

C12_Step(s) ==
    (storage_path[s] = "none" /\ pc[s] # "closed") =>
        /\ ~watcher[s] /\ ~needs_reload[s] /\ ignore_next_events[s] = 0
        /\ pending[s] = 0 /\ cb[s] = -1 /\ fd[s] = "none" /\ saves[s] = 0
        /\ pc[s] \in {"idle", "body", "ret"}
        /\ (sessions'[s] # sessions[s] /\ pc'[s] # "closed") => pc[s] = "body"
        /\ Steps(s) =>
              /\ UNCHANGED <<target, tmp, dir>>
              /\ pc[s] = "body" =>
                    LET c == call[s]
                    IN  /\ pc'[s] = "ret"
                        /\ ret'[s] = OkRet(c, sessions'[s])
                        /\ c.op = "get" => sessions'[s] = sessions[s]
                        /\ c.op # "get" =>
                              /\ c.id \in DOMAIN sessions'[s]
                              /\ sessions'[s][c.id].data = Apply(c.f, DataOr(sessions[s], c.id))

\* C12: new without a path returns a store with an empty map and touches no
\* file, whatever the file holds; a store constructed without a path never
\* has a watcher, a pending notification, a set needs_reload or a non-zero
\* ignore_next_events; it never
\* is at a step that reads or writes a file, none of its steps changes the
\* target, the temp file or the directory, and nothing but its own map work
\* changes its map; get, get_or_create, update and set go straight from the
\* map work to an Ok return with the result computed on the in-memory map.
C12_PathLess == [][\A s \in Stores : C12_New(s) /\ C12_Step(s)]_vars

C12_Witness ==
    \E s \in Stores :
        /\ storage_path[s] = "none"
        /\ Returned(s, "update")
        /\ sessions[s]["a"].data = MaxData
        /\ ParseOk(target)
        /\ Parse(target) # EmptyMap
        /\ Parse(target) # sessions[s]
        /\ pre[s] # EmptyMap

C14_Step(s) ==
    /\ (pc[s] = "load" /\ pc'[s] = "ret") =>
          /\ ~ret'[s].ok
          /\ needs_reload'[s]
          /\ sessions'[s] = sessions[s]
          /\ UNCHANGED <<target, tmp, ignore_next_events, saves>>
    /\ (pc[s] = "load" /\ pc'[s] = "clear") => sessions'[s] = LoadFrom(sessions[s], target)
    /\ (Steps(s) /\ pc[s] = "load") => pc'[s] \in {"ret", "clear"}
    /\ (pc'[s] = "ret" /\ ~ret'[s].ok) => pc[s] \in {"load", "ret"}
    /\ (pc[s] = "ret" /\ ~ret[s].ok) =>
          /\ needs_reload[s]
          /\ sessions[s] = pre[s]
          /\ saves[s] = 0
          /\ pc'[s] = "idle" => needs_reload'[s]
    /\ (pc[s] = "idle" /\ needs_reload[s] /\ Steps(s)) => pc'[s] = "load"

\* C14: when the read of a reload fails the operation returns the error with
\* the map as it was before the operation, nothing saved, no file changed,
\* and needs_reload still set when the operation has returned, so that the
\* next operation goes to load again; a read that succeeds always goes on,
\* whatever the content, and only a failed read makes an operation return
\* an error here.
C14_LoadError == [][\A s \in Stores : C14_Step(s)]_vars

C14_Witness ==
    \E s \in Stores :
        /\ pc[s] = "ret" /\ ~ret[s].ok
        /\ call[s].op = "set"
        /\ "a" \in DOMAIN sessions[s]
        /\ sessions[s]["a"].data # call[s].f.v
        /\ ParseOk(target)
        /\ Parse(target) # sessions[s]

InNew(s) == pc[s] \in {"closed", "create", "newload", "watch"}

C15_Step(s) ==
    /\ (pc'[s] = "create" /\ pc[s] # "create") =>
          /\ pc[s] = "closed"
          /\ dir'
          /\ storage_path'[s] = "P"
          /\ sessions'[s] = EmptyMap /\ ~watcher'[s]
          /\ UNCHANGED <<target, tmp>>
    /\ (pc'[s] = "newload" /\ pc[s] # "newload") =>
          /\ pc[s] = "create"
          /\ dir
          /\ target' = IF target = NoFile THEN <<>> ELSE target
          /\ sessions'[s] = EmptyMap /\ ~watcher'[s]
    /\ (pc'[s] = "watch" /\ pc[s] # "watch") =>
          /\ pc[s] = "newload"
          /\ target # NoFile /\ target' = target
          /\ sessions'[s] = LoadFrom(EmptyMap, target)
          /\ ~watcher'[s]
    /\ (InNew(s) /\ pc'[s] = "idle") =>
          \/ pc[s] = "watch" /\ storage_path'[s] = "P" /\ watcher'[s] /\ sessions'[s] = sessions[s]
          \/ pc[s] = "closed" /\ storage_path'[s] = "none" /\ ~watcher'[s]
    /\ (InNew(s) /\ ret[s].ok /\ ~ret'[s].ok) =>
          /\ pc'[s] = "closed"
          /\ ~watcher'[s]
          /\ sessions'[s] = EmptyMap
          /\ UNCHANGED <<target, tmp, dir>>
    /\ InNew(s) => ~watcher[s]
    /\ ~InNew(s) => (watcher[s] <=> storage_path[s] = "P")

\* C15: new with a path goes through its steps in this order and no other:
\* the directory is made, then the file is created when absent and left as
\* it is otherwise, then the map is loaded from it, then the watcher is
\* started and the store returned; the directory appears in the first step
\* alone; a failure at any of the four steps returns an error, leaves the
\* files as they are and produces no store; a constructed store has a
\* watcher exactly when it has a path.
C15_Construction ==
    [][/\ \A s \in Stores : C15_Step(s)
       /\ dir' # dir => \E s \in Stores : pc[s] = "closed" /\ pc'[s] = "create"]_vars

C15_Witness ==
    \E s \in Stores :
        /\ pc[s] = "watch"
        /\ dir
        /\ ~watcher[s]
        /\ ParseOk(target)
        /\ sessions[s] = Parse(target)
        /\ sessions[s] # EmptyMap
        /\ sessions[s]["a"].metadata.last_used > sessions[s]["a"].metadata.created_at

C16_Step(s) ==
    (pc'[s] # "closed" /\ ~(DOMAIN sessions[s] \subseteq DOMAIN sessions'[s])) =>
        /\ pc[s] = "load" /\ pc'[s] = "clear"
        /\ Len(Trim(target)) > 0
        /\ ParseOk(target)
        /\ sessions'[s] = Parse(target)
        /\ target \in ExtContents

C17_Step(s) ==
    /\ \A id \in DOMAIN sessions[s] :
          sessions[s][id].metadata.last_used >= sessions[s][id].metadata.created_at
    /\ pc'[s] # "closed" =>
          \A id \in DOMAIN sessions'[s] :
              LET new == sessions'[s][id].metadata
              IN  IF id \in DOMAIN sessions[s]
                  THEN LET old == sessions[s][id].metadata
                       IN  /\ new.created_at = old.created_at
                           /\ new.last_used # old.last_used =>
                                 /\ pc[s] = "body" /\ IsUpdate(s) /\ call[s].id = id
                                 /\ sessions'[s][id].data # sessions[s][id].data
                                 /\ new.last_used = now'
                                 /\ new.last_used > old.last_used
                  ELSE pc[s] = "body" =>
                          /\ call[s].id = id
                          /\ new.created_at >= now
                          /\ new.last_used >= new.created_at
                          /\ new.last_used = now'
                          /\ call[s].op = "get_or_create" => new.last_used = new.created_at

C18_Step(s) ==
    /\ (pending'[s] < pending[s] /\ ignore_next_events[s] > 0 /\ pc'[s] # "closed") =>
          /\ needs_reload'[s] = needs_reload[s]
          /\ cb'[s] = ignore_next_events[s]
    /\ (needs_reload'[s] /\ ~needs_reload[s]) =>
          pending'[s] < pending[s] /\ ignore_next_events[s] = 0
    /\ (pc[s] = "idle" /\ ~needs_reload[s] /\ Steps(s)) => pc'[s] = "body"
    /\ (pc[s] = "body" /\ pc'[s] = "ret" /\ call[s].op = "get") =>
          ret'[s] = OkRet(call[s], sessions[s]) /\ sessions'[s] = sessions[s]

\* C18: a notification handled while ignore_next_events > 0 is discarded,
\* whoever wrote the file: needs_reload keeps its value; needs_reload is
\* set by nothing but a notification handled at 0; and an operation that
\* finds needs_reload false does not read the file: get answers from the map
\* in memory.  So an external rewrite whose notification is swallowed after
\* a save leaves the store answering with stale data.
C18_Swallowed == [][\A s \in Stores : C18_Step(s)]_vars

C18_Witness ==
    \E s \in Stores :
        /\ Returned(s, "set")
        /\ call[s].id = "a"
        /\ saves[s] = 1
        /\ target \in ExtContents
        /\ ParseOk(target)
        /\ Parse(target)["a"].data # sessions[s]["a"].data
        /\ pending[s] = 0 /\ cb[s] = -1 /\ ignore_next_events[s] = 0
        /\ ~needs_reload[s]

\* C19: when two stores have both returned Ok from a set that saved, on
\* different ids, and the file lacks the id one of them set, then the file is
\* exactly the full map the other store saved, the view that store worked on
\* did not have the id, and a store opened on the file now does not get it.
C19_LostUpdate ==
    \A s, w \in Stores :
        ( /\ s # w
          /\ Returned(s, "set") /\ saves[s] = 1
          /\ Returned(w, "set") /\ saves[w] = 1
          /\ call[s].id # call[w].id
          /\ call[s].id \notin FileIds(target) ) =>
            /\ target = Serialize(sessions[w])
            /\ call[s].id \notin DOMAIN pre[w]
            /\ call[s].id \notin DOMAIN LoadFrom(EmptyMap, target)

C19_Witness ==
    \E s, w \in Stores :
        /\ s # w
        /\ Returned(s, "set") /\ saves[s] = 1 /\ call[s].id = "a"
        /\ Returned(w, "set") /\ saves[w] = 1 /\ call[w].id = "b"
        /\ "a" \in DOMAIN sessions[s]
        /\ ParseOk(target)
        /\ DOMAIN Parse(target) = {"b"}

C20_Step(s) ==
    errors'[s] > errors[s] =>
        /\ watcher[s] /\ watcher'[s]
        /\ cb'[s] = -1
        /\ needs_reload'[s] = needs_reload[s]
        /\ ignore_next_events'[s] = ignore_next_events[s]
        /\ UNCHANGED <<pc, sessions, storage_path, pending, call, ret, pre, saves, fd,
                       target, tmp>>

\* C20: when the callback is handed an error result it returns having
\* changed neither needs_reload nor ignore_next_events; the watcher stays
\* alive, the events still pending stay, and the store, its operation in
\* progress and the files are as they were, so operations go on as if the
\* error had not occurred.
C20_CallbackError == [][\A s \in Stores : C20_Step(s)]_vars

C20_Witness ==
    \E s \in Stores :
        /\ errors[s] = MaxErrors
        /\ watcher[s]
        /\ Returned(s, "set")
        /\ saves[s] = 1
        /\ target = Serialize(sessions[s])
        /\ needs_reload[s]
        /\ pending[s] > 0

\* The mcplease command line on one project directory: create, then adds.
ToolLists == UNION {[1..n -> ToolNames] : n \in 0..MaxTools}

NextCli ==
    \/ \E tools \in ToolLists : CreateProject(tools)
    \/ \E name \in ToolNames : AddTool(name)

SpecCli == Init /\ [][NextCli]_vars

\* the string names the tools! macro of tools.rs lists
Listed(file) == {file.tools[i].string_name : i \in 1..Len(file.tools)}

\* the project directory holds a project whose tools! macro parses
Scaffolded == tools_rs # NoProject /\ ArgsOk(tools_rs)

C21_Step ==
    (cli'.cmd = "add" /\ cli' # cli /\ Scaffolded) =>
        LET n == to_snake_case(cli'.name[1])
        IN  IF n \notin Listed(tools_rs)
            THEN /\ cli'.result = "ok"
                 /\ Len(tools_rs'.tools) = Len(tools_rs.tools) + 1
                 /\ \A i \in 1..Len(tools_rs.tools) : tools_rs'.tools[i] = tools_rs.tools[i]
                 /\ tools_rs'.tools[Len(tools_rs'.tools)].string_name = n
                 /\ Listed(tools_rs') = Listed(tools_rs) \cup {n}
                 /\ \E f \in tool_files' : f.file = n
            ELSE /\ cli'.result = "err"
                 /\ UNCHANGED <<tools_rs, tool_files>>

\* C21: adding a tool to a scaffolded project whose macro lists S: a name whose
\* snake_case form is not in S is appended to the entries, all of which are
\* kept, and its source file exists afterwards; a name in S is refused with an
\* error and tools.rs and the tool files stay as they were.
C21_AddTool == [][C21_Step]_vars

\* the same for names that make a Rust identifier
C21_IdentNames ==
    [][(cli'.cmd = "add" /\ IsIdent(to_pascal_case(cli'.name[1]))) => C21_Step]_vars

\* an add of a name that was not listed has succeeded
C21_Added ==
    /\ cli.cmd = "add"
    /\ cli.result = "ok"
    /\ Len(tools_rs.tools) = 2
    /\ tools_rs.tools[2].string_name = to_snake_case(cli.name[1])

\* an add was refused for a name given in another spelling than the listed one
C21_Refused ==
    /\ cli.cmd = "add"
    /\ cli.result = "err"
    /\ Scaffolded
    /\ \E i \in 1..Len(tools_rs.tools) :
           /\ tools_rs.tools[i].string_name = to_snake_case(cli.name[1])
           /\ tools_rs.tools[i].string_name # cli.name[1]

\* the callback of s takes a create/modify event and its watcher stays alive
CbTakes(s) == pending'[s] = pending[s] - 1 /\ watcher'[s]

\* the callback of s stores the lowered counter and returns
CbStores(s) == cb[s] # -1 /\ cb'[s] = -1 /\ watcher'[s]

C22_Step(s) ==
    /\ (CbTakes(s) /\ ignore_next_events[s] > 0) =>
          /\ cb'[s] = ignore_next_events[s]
          /\ needs_reload'[s] = needs_reload[s]
          /\ ignore_next_events'[s] = ignore_next_events[s]
    /\ CbStores(s) =>
          /\ cb[s] > 0
          /\ ignore_next_events'[s] = cb[s] - 1
          /\ needs_reload'[s] = needs_reload[s]
    /\ (CbTakes(s) /\ ignore_next_events[s] = 0) =>
          /\ needs_reload'[s]
          /\ ignore_next_events'[s] = 0
          /\ cb'[s] = -1
    /\ others'[s] > others[s] =>
          /\ needs_reload'[s] = needs_reload[s]
          /\ ignore_next_events'[s] = ignore_next_events[s]
          /\ pending'[s] = pending[s]
          /\ cb'[s] = -1

\* C22: the callback's rule.  For a create or modify event it loads
\* ignore_next_events: above 0 it stores the loaded value less one and leaves
\* needs_reload alone; at 0 it sets needs_reload and leaves the counter at 0.
\* For an event of any other kind it changes neither.
C22_CallbackRule == [][\A s \in Stores : C22_Step(s)]_vars

\* All three arms have run: the callback marked the store for an event it
\* took at 0, later lowered the counter of a save from 2 to 1, and was handed
\* an event of another kind.
C22_Witness ==
    \E s \in Stores :
        /\ needs_reload[s]
        /\ ignore_next_events[s] = 1
        /\ cb[s] = -1
        /\ others[s] = 1
        /\ pending[s] = 0

\* s starts save(): the step that stores to ignore_next_events
Arms(s) == pc[s] = "body" /\ pc'[s] = "open"

C23_Step(s) ==
    /\ ignore_next_events[s] \in {0, 1, 2}
    /\ ignore_next_events'[s] \in {0, 1, 2}
    /\ ignore_next_events'[s] > ignore_next_events[s] =>
          Arms(s) /\ ignore_next_events'[s] = 2
    /\ (ignore_next_events'[s] < ignore_next_events[s] /\ pc'[s] # "closed") =>
          CbStores(s) /\ UNCHANGED pc

\* C23: ignore_next_events is 0, 1 or 2 in every state; it is raised only by
\* the step of an operation that starts save, which sets it to 2, and, as
\* long as the store lives, lowered only by the callback's store after a
\* create/modify event.
C23_CounterRange == [][\A s \in Stores : C23_Step(s)]_vars

\* A save armed the counter and the callback has consumed both of its events
\* while the operation was still returning.
C23_Witness ==
    \E s \in Stores :
        /\ pc[s] = "ret" /\ ret[s].ok
        /\ saves[s] = 1
        /\ ignore_next_events[s] = 0
        /\ pending[s] = 0 /\ cb[s] = -1
        /\ ~needs_reload[s]

C24_Step(s) ==
    /\ Arms(s) =>
          /\ storage_path[s] = "P"
          /\ ignore_next_events'[s] = 2
          /\ UNCHANGED <<target, tmp, pending, saves>>
    /\ (pc'[s] = "open" /\ pc[s] # "open") => Arms(s)
    /\ (pc'[s] = "write" /\ pc[s] # "write") => pc[s] = "open" /\ target' = target
    /\ (pc'[s] = "rename" /\ pc[s] # "rename") => pc[s] = "write"
    /\ saves'[s] > saves[s] => pc[s] = "rename"
    /\ (pc[s] = "body" /\ pc'[s] # "body" /\ pc'[s] # "closed"
        /\ storage_path[s] = "P" /\ sessions'[s] # sessions[s]) =>
          Arms(s) /\ call[s].op \in {"get_or_create", "update", "set"}

\* C24: a save stores 2 to ignore_next_events in the step that starts it,
\* before the temp file is opened, written or renamed, so the events of its
\* rename are produced after the counter was armed; and every operation that
\* changes the map of a path-backed store (a new id in get_or_create, a
\* changed update or set) starts a save and so arms the counter.
C24_ArmedBeforeWrite == [][\A s \in Stores : C24_Step(s)]_vars

\* The counter is armed and the temp file is written; the rename has not run.
C24_Witness ==
    \E s \in Stores :
        /\ pc[s] = "rename"
        /\ tmp = Serialize(sessions[s])
        /\ ignore_next_events[s] = 2
        /\ pending[s] = 0 /\ cb[s] = -1
        /\ saves[s] = 0
        /\ sessions[s] # pre[s]

C25_Step(s) ==
    /\ (pc[s] = "idle" /\ Steps(s) /\ pc'[s] # "closed") =>
          IF needs_reload[s]
          THEN pc'[s] = "load" /\ sessions'[s] = sessions[s]
          ELSE /\ pc'[s] = "body"
               /\ sessions'[s] = sessions[s]
               /\ needs_reload'[s] = needs_reload[s]
               /\ ignore_next_events'[s] = ignore_next_events[s]
    /\ (pc'[s] = "load" /\ pc[s] # "load") => pc[s] = "idle" /\ needs_reload[s]
    /\ (pc[s] = "load" /\ pc'[s] = "clear") =>
          /\ sessions'[s] = IF storage_path[s] = "P" THEN LoadFrom(sessions[s], target)
                            ELSE sessions[s]
          /\ UNCHANGED <<target, tmp>>
    /\ (pc'[s] = "clear" /\ pc[s] # "clear") => pc[s] = "load"
    /\ (pc[s] = "clear" /\ pc'[s] # "clear" /\ pc'[s] # "closed") =>
          /\ pc'[s] = "body"
          /\ ~needs_reload'[s]
          /\ sessions'[s] = sessions[s]
          /\ ignore_next_events'[s] = ignore_next_events[s]

\* C25: check_and_reload.  With needs_reload true the operation goes through
\* one load, which replaces the map by what the file parses to, and then
\* stores false to needs_reload before its body runs; the load is entered from
\* nowhere else.  With needs_reload false the operation goes to its body at
\* once: no file is read and the map and both atomics keep their values.
C25_CheckAndReload == [][\A s \in Stores : C25_Step(s)]_vars

\* check_and_reload has found the flag set and read the rewritten file; the
\* flag is still set and is cleared next.
C25_Witness ==
    \E s \in Stores :
        /\ pc[s] = "clear"
        /\ needs_reload[s]
        /\ ParseOk(target) /\ Len(Trim(target)) > 0
        /\ sessions[s] = Parse(target)
        /\ "a" \in DOMAIN sessions[s]
        /\ pending[s] = 0 /\ cb[s] = -1

\* One path-backed store whose saves may fail, its watcher, nothing else
\* writing the file.
NextDisk ==
    \/ New("A", "P")
    \/ Create("A")
    \/ NewLoad("A")
    \/ Watch("A")
    \/ \E op \in Ops, f \in Mutators : Begin("A", op, "a", f)
    \/ Load("A")
    \/ Clear("A")
    \/ \E t1, t2 \in Times : Body("A", t1, t2)
    \/ OpenTmp("A")
    \/ WriteTmp("A")
    \/ \E k \in 1..IgnoreCount : Rename("A", k)
    \/ SaveFail("A")
    \/ Return("A")
    \/ CbRead("A")
    \/ CbWrite("A")

SpecDisk == Init /\ [][NextDisk]_vars

\* check_and_reload's load of s replaces the map
Reloads(s) == pc[s] = "load" /\ pc'[s] = "clear"

\* C26 as stated: where nothing but the store writes the file, a reload
\* leaves the map as it was.
C26_Original == [][\A s \in Stores : Reloads(s) => sessions'[s] = sessions[s]]_vars

\* C26: where nothing but the store writes the file and no save of the store
\* has failed since its last successful one, a reload leaves the map as it
\* was; after a failed save a reload replaces the map, which still holds
\* the change that was not saved, by what the last successful save wrote.
C26_ExtraReload ==
    [][\A s \in Stores :
          Reloads(s) =>
              /\ ~failed[s] => sessions'[s] = sessions[s]
              /\ sessions'[s] # sessions[s] =>
                    /\ target # Serialize(sessions[s])
                    /\ Serialize(sessions'[s]) = target]_vars

\* A reload of the store's own last save has run, set off by one of its own
\* events, and the map came out as it went in: it is not empty and is what
\* the file holds.
C26_Witness ==
    \E s \in Stores :
        /\ pc[s] = "clear"
        /\ ~failed[s]
        /\ "a" \in DOMAIN sessions[s]
        /\ target = Serialize(sessions[s])

\* a step of the callback of s
CbStep(s) ==
    \/ CbTakes(s)
    \/ CbStores(s)
    \/ errors'[s] > errors[s]
    \/ others'[s] > others[s]

C27_Step(s) ==
    /\ CbStep(s) =>
          UNCHANGED <<sessions, target, tmp, storage_path, pc, call, ret, pre, saves,
                      fd, now, dir, watcher, dropped, failed>>
    /\ (watcher[s] /\ pending[s] > 0 /\ cb[s] = -1) => ENABLED CbRead(s)
    /\ cb[s] # -1 => ENABLED CbWrite(s)
    /\ (pc'[s] # pc[s] /\ pc'[s] # "closed") =>
          /\ cb'[s] = cb[s]
          /\ errors'[s] = errors[s]
          /\ others'[s] = others[s]

\* C27: a step of the callback changes nothing but needs_reload,
\* ignore_next_events and the callback's own position: the map, the files, the
\* path and the operation in progress are as they were.  The callback can
\* take an event and store the counter wherever the caller is, so it waits
\* for nothing the caller holds; and no step of the caller touches the
\* callback's local state.
C27_CallbackFrame == [][\A s \in Stores : C27_Step(s)]_vars

\* The callback has loaded the counter this save armed and is about to store,
\* while the caller is in the middle of the save.
C27_Witness ==
    \E s \in Stores :
        /\ pc[s] = "write"
        /\ cb[s] = 2
        /\ sessions[s] # pre[s]
        /\ tmp = <<>>

\* check_and_reload of s stores false to needs_reload
Clears(s) == pc[s] = "clear" /\ pc'[s] = "body"

\* C28: no notification is lost by check_and_reload.  When it clears the flag
\* with every event handled and none suppressed (the counter is 0, the
\* callback is not running), then after the step either the flag is set or
\* the map is what a read of the file gives now: a write that landed after
\* load read the file has not been forgotten.
C28_NoLostNotification ==
    [][\A s \in Stores :
          (Clears(s) /\ pending[s] = 0 /\ cb[s] = -1 /\ ignore_next_events[s] = 0) =>
              \/ needs_reload'[s]
              \/ sessions'[s] = LoadFrom(sessions[s], target)]_vars

\* One path-backed store and its watcher; nothing else writes the file, no
\* I/O fails, and every rename produces exactly the two expected events.
NextEcho ==
    \/ New("A", "P")
    \/ Create("A")
    \/ NewLoad("A")
    \/ Watch("A")
    \/ \E op \in Ops, f \in Mutators : Begin("A", op, "a", f)
    \/ Load("A")
    \/ Clear("A")
    \/ \E t1, t2 \in Times : Body("A", t1, t2)
    \/ OpenTmp("A")
    \/ WriteTmp("A")
    \/ Rename("A", IgnoreCount)
    \/ Return("A")
    \/ CbRead("A")
    \/ CbWrite("A")

SpecEcho == Init /\ [][NextEcho]_vars

\* C29: with one store, no other writer and two events per save, the store's
\* own writes never set needs_reload, also when saves follow each other
\* faster than the callback handles their events.
C29_NoSelfReload == \A s \in Stores : ~needs_reload[s]

\* the save of the operation of s returns an error
SaveFails(s) == InSave(s) /\ pc'[s] = "ret" /\ ~ret'[s].ok

\* the operation of s has returned an error and left the map changed
FailedChange(s) == pc[s] = "ret" /\ ~ret[s].ok /\ sessions[s] # pre[s]

C30_Step(s) ==
    LET id == call[s].id
    IN  /\ SaveFails(s) =>
              /\ call[s].op \in {"get_or_create", "update", "set"}
              /\ sessions'[s] = sessions[s]
              /\ target' = target
              /\ ignore_next_events'[s] = ignore_next_events[s]
              /\ needs_reload'[s] = needs_reload[s]
              /\ pending' = pending
              /\ saves'[s] = 0
        /\ (InSave(s) /\ pc'[s] # "closed") =>
              /\ sessions'[s] = sessions[s]
              /\ sessions[s] # pre[s]
              /\ id \in DOMAIN sessions[s]
              /\ IF call[s].op = "get_or_create"
                 THEN /\ id \notin DOMAIN pre[s]
                      /\ sessions[s][id].data = DefaultData
                 ELSE /\ sessions[s][id].data = Apply(call[s].f, DataOr(pre[s], id))
                      /\ id \in DOMAIN pre[s] =>
                            /\ sessions[s][id].metadata.last_used >=
                                   pre[s][id].metadata.last_used
                            /\ sessions[s][id].metadata.created_at =
                                   pre[s][id].metadata.created_at
              /\ (pc'[s] # "ret" \/ ~ret'[s].ok) => target' = target
              /\ (ignore_next_events'[s] # ignore_next_events[s]) => CbStores(s)

\* C30: when save fails, at serialization or the creation of the temp file,
\* at the write or at the rename, the operation returns the error and the step
\* changes nothing else: the map keeps the entry the operation created or
\* changed, the target file is as it was before the operation, no event is
\* produced, and the counter save armed is not taken back: it is lowered by
\* nothing but the callback handling an event.
C30_SaveFailure == [][\A s \in Stores : C30_Step(s)]_vars

\* set has returned a save's error: the map holds the new data with last_used
\* advanced, the file still holds the old, and the counter is 2 with no event
\* left to consume it.
C30_Witness ==
    \E s \in Stores :
        /\ FailedChange(s)
        /\ failed[s]
        /\ call[s].op = "set"
        /\ "a" \in DOMAIN pre[s]
        /\ sessions[s]["a"].metadata.last_used > pre[s]["a"].metadata.last_used
        /\ target = Serialize(pre[s])
        /\ ignore_next_events[s] = 2
        /\ pending[s] = 0 /\ cb[s] = -1

\* new of s registers the watch and returns the store
Opens(s) == pc[s] = "watch" /\ pc'[s] = "idle"

\* C31: when new(Some(path)) returns, the map is what a read of the file gives
\* now, or needs_reload is set: a rewrite of the file between new's load and
\* the registration of the watch is not missed.
C31_FreshAfterNew ==
    [][\A s \in Stores :
          Opens(s) =>
              \/ needs_reload'[s]
              \/ sessions'[s] = LoadFrom(sessions'[s], target')]_vars

\* the file and the map of s agree: the file is still empty and so is the
\* map, or the file parses to exactly the map
Agrees(s) ==
    \/ target = <<>> /\ sessions[s] = EmptyMap
    \/ ParseOk(target) /\ Parse(target) = sessions[s]

\* C32: with one path-backed store, no other writer and no I/O failure, when
\* an operation has returned (and until the next one starts) the file is
\* still empty with an empty map, or parses to exactly the map: same ids,
\* data and timestamps, however the callback's steps fall between the
\* operation's.
C32_FileIsMap ==
    \A s \in Stores : (pc[s] \in {"ret", "idle"} /\ storage_path[s] = "P") => Agrees(s)

\* An operation has returned after its save while the callback is in the
\* middle of handling one of the save's events; map and file hold both ids.
C32_Witness ==
    \E s \in Stores :
        /\ pc[s] = "ret" /\ ret[s].ok
        /\ saves[s] = 1
        /\ DOMAIN sessions[s] = Ids
        /\ cb[s] # -1
        /\ Parse(target) = sessions[s]

\* One path-backed store that sets and gets entries, while another program
\* leaves the file blank or cut short.
NextJunk ==
    \/ New("A", "P")
    \/ Create("A")
    \/ NewLoad("A")
    \/ Watch("A")
    \/ \E op \in {"set", "get"}, id \in Ids, f \in Mutators : Begin("A", op, id, f)
    \/ Load("A")
    \/ Clear("A")
    \/ \E t1, t2 \in Times : Body("A", t1, t2)
    \/ OpenTmp("A")
    \/ WriteTmp("A")
    \/ Rename("A", IgnoreCount)
    \/ Return("A")
    \/ CbRead("A")
    \/ CbWrite("A")
    \/ \E c \in {<<Space>>, <<LBrace, Junk>>} : ExtWrite(c, 1)

SpecJunk == Init /\ [][NextJunk]_vars

\* the file exists and load would not take its content: it is empty, only
\* whitespace, or does not parse
Unusable(c) == c # NoFile /\ (Len(Trim(c)) = 0 \/ ~ParseOk(c))

C33_Step(s) ==
    /\ (Reloads(s) /\ Unusable(target)) => sessions'[s] = sessions[s]
    /\ Clears(s) => ~needs_reload'[s] /\ sessions'[s] = sessions[s]
    /\ (pc[s] = "idle" /\ Steps(s) /\ ~needs_reload[s]) =>
          pc'[s] = "body" /\ sessions'[s] = sessions[s]
    /\ saves'[s] > saves[s] =>
          /\ target' = Serialize(sessions[s])
          /\ \A id \in Ids \ {call[s].id} :
                /\ id \in DOMAIN sessions[s] <=> id \in DOMAIN pre[s]
                /\ id \in DOMAIN pre[s] => sessions[s][id] = pre[s][id]

\* C33: a reload that finds the file empty or unparseable keeps the map, and
\* check_and_reload clears needs_reload all the same; operations that find the
\* flag clear go to their body without reading the file; and a save replaces
\* whatever the file holds by the serialization of the map in memory, which
\* is the map the operation started from plus the operation's own change.
C33_CorruptThenSave == [][\A s \in Stores : C33_Step(s)]_vars

\* set of a new id has just reloaded a file that does not parse: the map
\* still holds the other id, and the flag is cleared next.
C33_Witness ==
    \E s \in Stores :
        /\ pc[s] = "clear"
        /\ needs_reload[s]
        /\ Unusable(target)
        /\ call[s].op = "set" /\ call[s].id = "a"
        /\ DOMAIN sessions[s] = {"b"}
        /\ pending[s] = 0 /\ cb[s] = -1 /\ ignore_next_events[s] = 0

C36_Step(s) ==
    /\ CbStores(s) => ignore_next_events'[s] = ignore_next_events[s] - 1
    /\ saves'[s] > saves[s] => ignore_next_events'[s] = IgnoreCount

\* C36: the callback's decrement is atomic with respect to save's arming:
\* every store of the callback leaves ignore_next_events one below the value
\* it had just before that store, and when a save's rename has put the file
\* in place, before any of its events is handled, the counter is 2.
C36_AtomicDecrement == [][\A s \in Stores : C36_Step(s)]_vars

\* The server reading its standard input, with a standard output that takes
\* every write.  The server process keeps running: read_line waits only
\* while the input is open and has no line.
NextServe ==
    \/ \E l \in LineKinds : Feed(l)
    \/ \E e \in {"eof", "err"} : Close(e)
    \/ Serve
    \/ ReadLine
    \/ ReadEnd
    \/ Execute
    \/ WriteOut

SpecServe == Init /\ [][NextServe]_vars /\ WF_vars(ServerStep)

\* The same server with a standard output whose writes may fail.
NextPipe ==
    \/ \E l \in Lines : Feed(l)
    \/ \E e \in {"eof", "err"} : Close(e)
    \/ Serve
    \/ ReadLine
    \/ ReadEnd
    \/ Execute
    \/ WriteOut
    \/ WriteFail

SpecPipe == Init /\ [][NextPipe]_vars

\* serve has a request executed
Executes == serve_pc = "exec" /\ serve_pc' = "write"

\* the tools/call of r ends in an error: the params do not decode to a known
\* tool, or the tool returns Err
CallFails(r, st) ==
    \/ deserialize_tools(r.params) # "Ok"
    \/ tool_execute(r.params.name, st)[1] = "Err"

C34_Step ==
    Executes =>
        /\ response'.id = request.id
        /\ response'.jsonrpc = "2.0"
        /\ Len(response'.result) + Len(response'.error) = 1
        /\ request.method \in {"initialize", "tools/list"} =>
              state' = state /\ Len(response'.result) = 1
        /\ (request.method = "tools/call" /\ CallFails(request, state)) =>
              /\ Len(response'.error) = 1
              /\ response'.error[1].code = -32601
        /\ request.method \notin {"initialize", "tools/list", "tools/call"} =>
              /\ state' = state
              /\ Len(response'.error) = 1
              /\ response'.error[1].code = -32601
        /\ UNCHANGED <<stdin, stdout, taken, ending, request>>

\* C34: every execution of a request yields one response with the request's
\* id, jsonrpc "2.0" and exactly one of result and error; initialize and
\* tools/list answer with a result and leave the state alone; a tools/call
\* whose params do not decode to a known tool, or whose tool fails, yields an
\* error response and serve goes on to write it; any other method yields an
\* error response with code -32601 and leaves the state alone.
C34_Dispatch == [][C34_Step]_vars

\* a call of an unknown tool has been answered with an error, after an
\* earlier call changed the state
C34_Witness ==
    /\ serve_pc = "write"
    /\ request.method = "tools/call"
    /\ request.params.name = "nope"
    /\ Len(response.error) = 1
    /\ response.id = request.id
    /\ state = 1
    /\ Len(stdout) = 1

RECURSIVE RequestIds(_)
\* the ids of the lines of a sequence that parse as requests, in order
RequestIds(ls) ==
    IF ls = <<>> THEN <<>>
    ELSE IF from_str(Head(ls)) = "Request"
         THEN <<Head(ls).id>> \o RequestIds(Tail(ls))
         ELSE RequestIds(Tail(ls))

\* the ids of the lines written
WrittenIds == [i \in DOMAIN stdout |-> stdout[i].id]

\* all but the last element
Front(q) == SubSeq(q, 1, Len(q) - 1)

\* one line has been written for every request read, in the order read; the
\* request in hand, if any, is the last one read and is not answered yet
C35_Answered ==
    /\ serve_pc \in {"exec", "write"} =>
          /\ from_str(taken[Len(taken)]) = "Request"
          /\ request.id = taken[Len(taken)].id
          /\ WrittenIds = Front(RequestIds(taken))
    /\ serve_pc \notin {"exec", "write"} => WrittenIds = RequestIds(taken)
    /\ serve_pc # "err"

\* serve takes a line from the input
Reads == Len(taken') > Len(taken)

C35_Step ==
    /\ Reads =>
          /\ serve_pc = "read"
          /\ stdout' = stdout
          /\ from_str(Head(stdin)) # "Request" => serve_pc' = "read"
    /\ Len(stdout') > Len(stdout) =>
          /\ stdout' = Append(stdout, to_string(response))
          /\ taken' = taken
    /\ (serve_pc = "read" /\ serve_pc' = "ok") =>
          stdin = <<>> /\ ending # "open"
    /\ serve_pc = "ok" => UNCHANGED <<serve_pc, stdout, taken, state>>

\* C35: serve writes one response line per request line, in the order read
\* and before it reads the next line; it writes nothing for a notification or
\* a line that does not parse, and reads on after them; at end of file or a
\* read error it returns Ok, and once the input has ended it does return.
C35_ServeLoop ==
    /\ []C35_Answered
    /\ [][C35_Step]_vars
    /\ (ending # "open") ~> (serve_pc = "ok")

\* serve has returned after a read error; it had read a line that does not
\* parse and then two requests, which it answered in the order read
C35_Witness ==
    /\ serve_pc = "ok"
    /\ Len(taken) = 3
    /\ from_str(taken[1]) = "Err"
    /\ WrittenIds = <<"2", "1">>
    /\ ending = "err"

====
